---------------------------- MODULE Spec2Model ----------------------------
(***************************************************************************)
(* Model of the name-resolution and probing engine of patentpack:          *)
(*   - NamePlanCache   (src/src/patentpack/idmap/cache.py)                 *)
(*   - _Cache adapter and NameResolver (src/src/patentpack/idmap/           *)
(*     iterator.py)                                                        *)
(***************************************************************************)
EXTENDS Integers, Sequences, FiniteSets, TLC

\* ------------------------------------------------------------------------
\* Bounds of the model
\* ------------------------------------------------------------------------

\* total number of next() calls a consumer issues on resolve() generators
MaxRequests == 7

\* number of resolve() calls made on one resolver
MaxRuns == 2

\* number of operations called on a cache used directly
MaxOps == 4

\* number of cache operations each thread calls
MaxThreadOps == 2

\* next() calls and plan_names calls on a cache shared by both
MaxSharedRequests == 3

MaxPlanRuns == 1

\* calls of _post made in all, and the last second of the clock
MaxCalls == 3

MaxClock == 6

\* requests followed through their attempts
MaxHttpRequests == 2

\* searches each thread makes, and the last second of the token clock
MaxSearches == 2

MaxTokenTime == 180

\* registry records handed to one pick_top_matches call
MaxRows == 2

\* records in the "data" of one answer of the registry
MaxData == 2

\* characters of a string handed to norm
MaxLen == 4

\* get_codebook calls followed
MaxBookCalls == 3

\* ------------------------------------------------------------------------
\* Optional values: None is the empty tuple, a present value x is <<x>>
\* ------------------------------------------------------------------------

None == << >>

Some(x) == << x >>

\* ------------------------------------------------------------------------
\* cache.py: NamePlanCache, sequential semantics
\* A cache object is [loaded, mem, file]: _loaded, _mem and the lines of the
\* file at self.path.  A line is the text json.dumps produced (json = TRUE,
\* obj = the decoded object) or text that json.loads rejects (json = FALSE).
\* ------------------------------------------------------------------------

CacheKey(provider, year, op, key) == << provider, year, op, key >>

Dumps(rec) == [json |-> TRUE, obj |-> rec]

Loads(line) == IF line.json THEN Some(line.obj) ELSE None

MemSet(mem, k, v) == [x \in (DOMAIN mem) \cup {k} |-> IF x = k THEN v ELSE mem[x]]

LoadLine_keep_first(mem, line) ==
    LET r == Loads(line) IN
    IF r = None THEN mem
    ELSE LET rec == r[1]
             k == << rec.provider, rec.year, rec.op, rec.key >>
         IN IF k \in DOMAIN mem THEN mem ELSE MemSet(mem, k, rec.val)

\* body of the "for line in fh" loop of _load: one line applied to _mem
LoadLine(mem, line) ==
    LET r == Loads(line) IN
    IF r = None THEN mem
    ELSE LET rec == r[1] IN
         IF {"provider", "year", "op", "key", "val"} \subseteq DOMAIN rec
         THEN MemSet(mem, << rec.provider, rec.year, rec.op, rec.key >>, rec.val)
         ELSE mem

RECURSIVE LoadLines(_, _)
LoadLines(mem, lines) ==
    IF lines = << >> THEN mem
    ELSE LoadLines(LoadLine(mem, Head(lines)), Tail(lines))

_load(c) ==
    IF c.loaded THEN c
    ELSE [loaded |-> TRUE, mem |-> LoadLines(c.mem, c.file), file |-> c.file]

get(c, k) == LET m == _load(c).mem IN IF k \in DOMAIN m THEN Some(m[k]) ELSE None

put_skip_unchanged(c, k, val) ==
    LET l == _load(c) IN
    IF k \in DOMAIN l.mem /\ l.mem[k] = val THEN l
    ELSE [loaded |-> TRUE,
          mem    |-> MemSet(l.mem, k, val),
          file   |-> Append(l.file,
                       Dumps([provider |-> k[1], year |-> k[2], op |-> k[3],
                              key |-> k[4], val |-> val]))]

put(c, k, val) ==
    LET l == _load(c) IN
    [loaded |-> TRUE,
     mem    |-> MemSet(l.mem, k, val),
     file   |-> Append(l.file,
                  Dumps([provider |-> k[1], year |-> k[2], op |-> k[3],
                         key |-> k[4], val |-> val]))]

\* put whose "with self.path.open('a')" or write raises OSError: _mem was
\* assigned before, the file is as it was, the exception leaves put
put_append_raises(c, k, val) ==
    LET l == _load(c) IN
    [loaded |-> TRUE, mem |-> MemSet(l.mem, k, val), file |-> l.file]

has_hits(c, k) ==
    LET cached == get(c, k) IN
    IF cached = None THEN FALSE
    ELSE IF "has_hits" \in DOMAIN cached[1] THEN cached[1].has_hits ELSE FALSE

Merge_clobber(cur, b) == [has_hits |-> b]

\* {**cur, "has_hits": bool(has_hits)}
Merge(cur, b) ==
    IF cur = None THEN [has_hits |-> b]
    ELSE [f \in (DOMAIN cur[1]) \cup {"has_hits"} |->
             IF f = "has_hits" THEN b ELSE cur[1][f]]

mark_has_hits(c, k, b) == put(c, k, Merge(get(c, k), b))

NewCache(lines) == [loaded |-> FALSE, mem |-> << >>, file |-> lines]

\* ------------------------------------------------------------------------
\* iterator.py: bucket orders, _Cache adapter
\* ------------------------------------------------------------------------

SEED_BUCKETS == << "orig", "gleif_legal", "gleif_other", "gleif_sub" >>

EXPAND_BUCKETS == << "expand_legal", "expand_other", "expand_orig", "expand_sub" >>

ALL_BUCKETS == SEED_BUCKETS \o EXPAND_BUCKETS

_year(y) == IF y = None THEN 0 ELSE y[1]

get_eq_zero(c, provider_label, y, name) ==
    IF has_hits(c, CacheKey(provider_label, _year(y), "eq", name))
    THEN Some(0) ELSE None

get_eq(c, provider_label, y, name) ==
    IF has_hits(c, CacheKey(provider_label, _year(y), "eq", name))
    THEN Some(1) ELSE None

put_eq_always_hit(c, provider_label, y, name, count) ==
    mark_has_hits(c, CacheKey(provider_label, _year(y), "eq", name), TRUE)

put_eq(c, provider_label, y, name, count) ==
    mark_has_hits(c, CacheKey(provider_label, _year(y), "eq", name), count > 0)

get_discovery_miss(c, provider_label, y, seed) == None

get_discovery(c, provider_label, y, seed) ==
    IF has_hits(c, CacheKey(provider_label, _year(y), "discover", seed))
    THEN Some(<< "cached_hit" >>) ELSE None

put_discovery(c, provider_label, y, seed, found) ==
    mark_has_hits(c, CacheKey(provider_label, _year(y), "discover", seed),
                  Len(found) > 0)


\* ------------------------------------------------------------------------
\* Inputs of the resolver model
\* ------------------------------------------------------------------------

\* candidates lists [(variant, bucket), ...] handed to resolve()
Plans ==
    { << << "A", "orig" >> >>,
      << << "B", "gleif_legal" >>, << "A", "orig" >> >>,
      << << "A", "orig" >>, << "A", "orig" >> >>,
      << << "B", "gleif_sub" >>, << "A", "expand_sub" >>, << "A", "expand_legal" >> >> }

Strategies == { "eq_then_discovery", "discovery_first_for_seeds", "unknown" }

Years == { None, Some(2020) }

\* what provider.count_eq may answer
Counts == { 0, 772 }

\* what provider.discover_prefix may answer
DiscLists == { << >>, << "A" >>, << "B", "A", "B" >> }

\* answers of the provider to one call; raised = the call raised
EqResponses == [raised : {FALSE}, total : Counts] \cup {[raised |-> TRUE, total |-> 0]}

DiscResponses ==
    [raised : {FALSE}, harvested : DiscLists] \cup {[raised |-> TRUE, harvested |-> << >>]}

\* log files the cache may hold before the first resolution
InitFiles ==
    { << >>,
      << Dumps([provider |-> "provider", year |-> 2020, op |-> "discover",
                key |-> "A", val |-> [has_hits |-> TRUE]]) >>,
      << Dumps([provider |-> "provider", year |-> 0, op |-> "eq",
                key |-> "A", val |-> [has_hits |-> FALSE]]) >> }

\* ------------------------------------------------------------------------
\* State
\* ------------------------------------------------------------------------

VARIABLES
    candidates,   \* resolve(candidates=...)
    strategy,     \* resolve(strategy=...)
    year,         \* resolve(year=...), Optional[int]
    cache,        \* the NamePlanCache the resolver borrows
    pos,          \* where the generator is suspended
    status,       \* "created" | "suspended" | "done" | "raised" | "closed"
    events,       \* NameEvents yielded by the current generator
    calls,        \* provider calls made by the current generator
    requested,    \* next() calls of the consumer on the current generator
    budget,       \* next() calls of the consumer over all generators
    run,          \* number of the current resolve() call
    complete,     \* every earlier resolve() was consumed to its end
    file0,        \* cache file when the current generator was created
    fresh,        \* a NamePlanCache opened later on the same path (None: none yet)
    lastPut,      \* per key, the value handed to the latest put
    ops,          \* number of cache operations called so far
    failed,       \* record of a put whose append raised (None: the last put wrote)
    error,        \* the exception the last call on the cache raised (None: it returned)
    th,           \* per thread, the cache operation it runs and where it is in it
    lock,         \* holder of cache._LOCK, 0 when free
    clock,        \* time.monotonic(), in seconds
    _min_interval, \* provider._min_interval
    _last_ts,     \* provider._last_ts
    callers,      \* per thread, where it is in _post / _search
    wire,         \* the requests sent, in the order they started
    provider,     \* the provider class of the request followed attempt by attempt
    attempts,     \* results of the attempts of that request so far
    outcome,      \* "ready" | "backoff" | "raised" | "returned"
    requests,     \* number of requests followed so far
    counted,      \* what EpoProvider._count_for_query made of the last response
    auth,         \* EpoProvider._token and _token_exp
    gleifRows,    \* the registry records handed to pick_top_matches
    gleifTarget,  \* the target name handed to pick_top_matches
    picked,       \* what pick_top_matches returned (None: not called)
    gleif,        \* the gleif_search_union call under way (None: none)
    normed,       \* a string, norm of it and norm of that (None: none)
    book,         \* the codebook cache files and the last get_codebook (None: none)
    planArgs,     \* arguments of build_bucketed_variants
    expansions,   \* what expand_query_variants returns, per seed
    variants,     \* the list build_bucketed_variants returned (None: not called)
    planRuns,     \* number of plan_names calls so far
    planCalls,    \* provider calls made by the latest plan_names
    planResult    \* NamePlanResult of the latest plan_names (None: not called)

vars == << candidates, strategy, year, cache, pos, status, events, calls,
           requested, budget, run, complete, file0, fresh, lastPut, ops, failed, error,
           th, lock, clock, _min_interval, _last_ts, callers, wire,
           provider, attempts, outcome, requests, counted, auth, gleifRows, gleifTarget, picked,
           gleif, normed, book, planArgs, expansions, variants,
           planRuns, planCalls, planResult >>

\* state of the resolver, of a cache used directly, of threads on a cache
resolverVars == << candidates, strategy, year, pos, status, events, calls,
                   requested, budget, run, complete, file0 >>

directVars == << fresh, lastPut, ops, failed, error >>

threadVars == << th, lock >>

\* state of the provider clients, of plan_names and the variant planner
paceVars == << clock, _min_interval, _last_ts, callers, wire >>

retryVars == << provider, attempts, outcome, requests, counted >>

tokenVars == << auth >>

\* state of the matcher of registry records
registryVars == << gleifRows, gleifTarget, picked >>

searchVars == << gleif >>

normVars == << normed >>

codebookVars == << book >>

\* state of the registry search, of norm and of the codebook cache
toolVars == << searchVars, normVars, codebookVars >>

providerVars == << paceVars, retryVars, tokenVars, registryVars, toolVars >>

plannerVars == << planArgs, expansions, variants, planRuns, planCalls, planResult >>

\* no provider client and no planner is in use
NoPacing ==
    /\ clock = 0
    /\ _min_interval = 0
    /\ _last_ts = 0
    /\ callers = << >>
    /\ wire = << >>

NoRetry ==
    /\ provider = "none"
    /\ attempts = << >>
    /\ outcome = "none"
    /\ requests = 0
    /\ counted = None

NoToken == auth = None

NoSearch == gleif = None

NoNorm == normed = None

NoCodebook == book = None

NoTools ==
    /\ NoSearch
    /\ NoNorm
    /\ NoCodebook

NoRegistry ==
    /\ gleifRows = << >>
    /\ gleifTarget = << >>
    /\ picked = None

NoProvider ==
    /\ NoPacing
    /\ NoRetry
    /\ NoToken
    /\ NoRegistry
    /\ NoTools

NoPlanner ==
    /\ planArgs = << >>
    /\ expansions = << >>
    /\ variants = None
    /\ planRuns = 0
    /\ planCalls = << >>
    /\ planResult = None

\* NameResolver.__init__ default
provider_label == "provider"

EqAttemptResult(variant, bucket, total) ==
    [type |-> "eq", name |-> variant, bucket |-> bucket, total |-> total,
     harvested |-> << >>]

DiscoveryResult(seed, bucket, harvested) ==
    [type |-> "disc", name |-> seed, bucket |-> bucket, total |-> 0,
     harvested |-> harvested]

\* ------------------------------------------------------------------------
\* iterator.py: control flow of the two strategy generators
\* pos = [part, stage, b, i, harvested, h, seen]:
\*   part "A"/"B" the stage of the strategy, stage the loop being run,
\*   b the index in the bucket list, i the index in candidates,
\*   harvested/h/seen the state of the loop over harvested organizations
\* ------------------------------------------------------------------------

DISCOVERY_BUCKETS ==
    << "orig", "gleif_legal", "gleif_other", "expand_legal", "expand_other",
       "expand_orig" >>

SEED_DISCOVERY_BUCKETS == << "orig", "gleif_legal", "gleif_other" >>

EXPAND_DISCOVERY_BUCKETS == << "expand_legal", "expand_other", "expand_orig" >>

BucketList_all(strat, part) ==
    IF strat = "eq_then_discovery"
    THEN (IF part = "A" THEN SEED_BUCKETS ELSE ALL_BUCKETS)
    ELSE (IF part = "A" THEN SEED_DISCOVERY_BUCKETS ELSE EXPAND_DISCOVERY_BUCKETS)

BucketList(strat, part) ==
    IF strat = "eq_then_discovery"
    THEN (IF part = "A" THEN SEED_BUCKETS ELSE DISCOVERY_BUCKETS)
    ELSE (IF part = "A" THEN SEED_DISCOVERY_BUCKETS ELSE EXPAND_DISCOVERY_BUCKETS)

At(part, stage, b, i) ==
    [part |-> part, stage |-> stage, b |-> b, i |-> i,
     harvested |-> << >>, h |-> 1, seen |-> {}]

StartPos(strat) ==
    IF strat = "eq_then_discovery" THEN At("A", "eq", 1, 1) ELSE At("A", "disc", 1, 1)

EndPos == At("B", "end", 1, 1)

had_none_always(c, y, seed) == TRUE

\* discovery_first_for_seeds, "had_none": the cache holds no discovery
\* knowledge for the seed
had_none(c, y, seed) ==
    LET cached_disc == get_discovery(c, provider_label, y, seed)
    IN cached_disc = None \/ Len(cached_disc[1]) = 0

\* the generator runs from p to the next probe it performs (or to its end);
\* cands, strat, y, c are the arguments and the cache it reads on the way
RECURSIVE Seek(_, _, _, _, _)
Seek(p, cands, strat, y, c) ==
    LET bl == BucketList(strat, p.part) IN
    IF p.stage = "end" THEN p
    ELSE IF p.b > Len(bl)
    THEN (IF p.part = "A" THEN Seek(At("B", "disc", 1, 1), cands, strat, y, c)
          ELSE EndPos)
    ELSE IF p.stage = "eq"
    THEN (IF p.i > Len(cands) THEN Seek(At(p.part, "eq", p.b + 1, 1), cands, strat, y, c)
          ELSE IF cands[p.i][2] # bl[p.b]
               THEN Seek(At(p.part, "eq", p.b, p.i + 1), cands, strat, y, c)
          ELSE p)
    ELSE IF p.stage = "disc"
    THEN (IF p.i > Len(cands)
          THEN (IF strat = "discovery_first_for_seeds" /\ p.part = "A"
                THEN Seek(At(p.part, "fallback", p.b, 1), cands, strat, y, c)
                ELSE Seek(At(p.part, "disc", p.b + 1, 1), cands, strat, y, c))
          ELSE IF cands[p.i][2] # bl[p.b]
               THEN Seek(At(p.part, "disc", p.b, p.i + 1), cands, strat, y, c)
          ELSE p)
    ELSE IF p.stage = "harv"
    THEN (IF p.h > Len(p.harvested)
          THEN Seek(At(p.part, "disc", p.b, p.i + 1), cands, strat, y, c)
          ELSE IF p.harvested[p.h] \in p.seen
               THEN Seek([p EXCEPT !.h = p.h + 1], cands, strat, y, c)
          ELSE p)
    ELSE \* "fallback": eq on the seeds of the bucket without discovery knowledge
         (IF p.i > Len(cands)
          THEN Seek(At(p.part, "disc", p.b + 1, 1), cands, strat, y, c)
          ELSE IF cands[p.i][2] # bl[p.b]
               THEN Seek(At(p.part, "fallback", p.b, p.i + 1), cands, strat, y, c)
          ELSE IF had_none(c, y, cands[p.i][1]) THEN p
          ELSE Seek(At(p.part, "fallback", p.b, p.i + 1), cands, strat, y, c))

\* the name the probe at p is about
ProbeName(p, cands) ==
    IF p.stage = "harv" THEN p.harvested[p.h] ELSE cands[p.i][1]

AfterEq_unseen(p, total) ==
    IF p.stage = "harv"
    THEN [p EXCEPT !.h = p.h + 1]
    ELSE At(p.part, p.stage, p.b, p.i + 1)

AfterEq_first_hit(p, total) ==
    IF total > 0 /\ p.stage = "eq" THEN EndPos
    ELSE IF p.stage = "harv"
    THEN [p EXCEPT !.h = p.h + 1, !.seen = p.seen \cup {p.harvested[p.h]}]
    ELSE At(p.part, p.stage, p.b, p.i + 1)

\* the position after the probe at p has yielded its EqAttemptResult with the
\* given total: the loops go on whatever the total is
AfterEq(p, total) ==
    IF p.stage = "harv"
    THEN [p EXCEPT !.h = p.h + 1, !.seen = p.seen \cup {p.harvested[p.h]}]
    ELSE At(p.part, p.stage, p.b, p.i + 1)

AfterDisc(p, harvested) ==
    [part |-> p.part, stage |-> "harv", b |-> p.b, i |-> p.i,
     harvested |-> harvested, h |-> 1, seen |-> {}]

eq_probe_prefetch(c, y, name, stage, resp) ==
    LET cached == get_eq(c, provider_label, y, name)
        call   == [op |-> "count_eq", name |-> name, stage |-> stage,
                   raised |-> resp.raised, total |-> resp.total,
                   harvested |-> << >>]
        ahead  == [op |-> "discover_prefix", name |-> name, stage |-> stage,
                   raised |-> FALSE, total |-> 0, harvested |-> << >>]
    IN IF cached = None
       THEN IF resp.raised
            THEN [cache |-> _load(c), calls |-> << call >>, ok |-> FALSE, total |-> 0]
            ELSE [cache |-> put_eq(_load(c), provider_label, y, name, resp.total),
                  calls |-> << call, ahead >>, ok |-> TRUE, total |-> resp.total]
       ELSE [cache |-> _load(c), calls |-> << >>, ok |-> TRUE, total |-> cached[1]]

eq_probe_swallow(c, y, name, stage, resp) ==
    LET cached == get_eq(c, provider_label, y, name)
        call   == [op |-> "count_eq", name |-> name, stage |-> stage,
                   raised |-> resp.raised, total |-> resp.total,
                   harvested |-> << >>]
    IN IF cached = None
       THEN IF resp.raised
            THEN [cache |-> put_eq(_load(c), provider_label, y, name, 0),
                  calls |-> << call >>, ok |-> FALSE, total |-> 0]
            ELSE [cache |-> put_eq(_load(c), provider_label, y, name, resp.total),
                  calls |-> << call >>, ok |-> TRUE, total |-> resp.total]
       ELSE [cache |-> _load(c), calls |-> << >>, ok |-> TRUE, total |-> cached[1]]

\* cache lookup, provider call on a miss, cache write: the exact-count probe
\* result: the cache afterwards, the provider calls made, ok = no exception
eq_probe(c, y, name, stage, resp) ==
    LET cached == get_eq(c, provider_label, y, name)
        call   == [op |-> "count_eq", name |-> name, stage |-> stage,
                   raised |-> resp.raised, total |-> resp.total,
                   harvested |-> << >>]
    IN IF cached = None
       THEN IF resp.raised
            THEN [cache |-> _load(c), calls |-> << call >>, ok |-> FALSE, total |-> 0]
            ELSE [cache |-> put_eq(_load(c), provider_label, y, name, resp.total),
                  calls |-> << call >>, ok |-> TRUE, total |-> resp.total]
       ELSE [cache |-> _load(c), calls |-> << >>, ok |-> TRUE, total |-> cached[1]]

\* the discovery probe
disc_probe(c, y, seed, stage, resp) ==
    LET cached_disc == get_discovery(c, provider_label, y, seed)
        call == [op |-> "discover_prefix", name |-> seed, stage |-> stage,
                 raised |-> resp.raised, total |-> 0,
                 harvested |-> resp.harvested]
    IN IF cached_disc = None
       THEN IF resp.raised
            THEN [cache |-> _load(c), calls |-> << call >>, ok |-> FALSE,
                  harvested |-> << >>]
            ELSE [cache |-> put_discovery(_load(c), provider_label, y, seed,
                                          resp.harvested),
                  calls |-> << call >>, ok |-> TRUE, harvested |-> resp.harvested]
       ELSE [cache |-> _load(c), calls |-> << >>, ok |-> TRUE,
             harvested |-> cached_disc[1]]


\* ------------------------------------------------------------------------
\* Resolver: initial state and actions.  One action is one next() of the
\* consumer: the generator runs to its next yield, to its end or to an
\* exception.
\* ------------------------------------------------------------------------

Init ==
    /\ candidates \in Plans
    /\ strategy \in Strategies
    /\ year \in Years
    /\ cache \in { NewCache(f) : f \in InitFiles }
    /\ pos = StartPos(strategy)
    /\ status = "created"
    /\ events = << >>
    /\ calls = << >>
    /\ requested = 0
    /\ budget = 0
    /\ run = 1
    /\ complete = TRUE
    /\ file0 = cache.file
    /\ fresh = None
    /\ lastPut = << >>
    /\ ops = 0
    /\ failed = None
    /\ error = None
    /\ th = << >>
    /\ lock = 0
    /\ NoProvider
    /\ NoPlanner

Live == status \in { "created", "suspended" } /\ budget < MaxRequests

KnownStrategy == strategy \in { "eq_then_discovery", "discovery_first_for_seeds" }

Target == Seek(pos, candidates, strategy, year, cache)

\* resolve(), "raise ValueError(Unknown strategy)"
ResumeUnknown ==
    /\ Live
    /\ ~KnownStrategy
    /\ status' = "raised"
    /\ requested' = requested + 1
    /\ budget' = budget + 1
    /\ UNCHANGED << candidates, strategy, year, cache, pos, events, calls, run,
                    complete, file0 >>
    /\ UNCHANGED << directVars, threadVars, providerVars, plannerVars >>

\* the generator returns: StopIteration
ResumeEnd ==
    /\ Live
    /\ KnownStrategy
    /\ Target.stage = "end"
    /\ status' = "done"
    /\ pos' = Target
    /\ requested' = requested + 1
    /\ budget' = budget + 1
    /\ UNCHANGED << candidates, strategy, year, cache, events, calls, run,
                    complete, file0 >>
    /\ UNCHANGED << directVars, threadVars, providerVars, plannerVars >>

\* an exact-count probe: on a seed, on a harvested organization or as the
\* fallback of discovery_first_for_seeds
ResumeEq ==
    /\ Live
    /\ KnownStrategy
    /\ Target.stage \in { "eq", "harv", "fallback" }
    /\ \E resp \in EqResponses :
          LET p == Target
              r == eq_probe(cache, year, ProbeName(p, candidates), p.stage, resp)
              bucket == BucketList(strategy, p.part)[p.b]
          IN /\ cache' = r.cache
             /\ calls' = calls \o r.calls
             /\ IF r.ok
                THEN /\ events' = Append(events,
                            EqAttemptResult(ProbeName(p, candidates), bucket, r.total))
                     /\ status' = "suspended"
                     /\ pos' = AfterEq(p, r.total)
                ELSE /\ events' = events
                     /\ status' = "raised"
                     /\ pos' = p
    /\ requested' = requested + 1
    /\ budget' = budget + 1
    /\ UNCHANGED << candidates, strategy, year, run, complete, file0 >>
    /\ UNCHANGED << directVars, threadVars, providerVars, plannerVars >>

\* a discovery probe
ResumeDisc ==
    /\ Live
    /\ KnownStrategy
    /\ Target.stage = "disc"
    /\ \E resp \in DiscResponses :
          LET p == Target
              r == disc_probe(cache, year, ProbeName(p, candidates), p.stage, resp)
              bucket == BucketList(strategy, p.part)[p.b]
          IN /\ cache' = r.cache
             /\ calls' = calls \o r.calls
             /\ IF r.ok
                THEN /\ events' = Append(events,
                            DiscoveryResult(ProbeName(p, candidates), bucket, r.harvested))
                     /\ status' = "suspended"
                     /\ pos' = AfterDisc(p, r.harvested)
                ELSE /\ events' = events
                     /\ status' = "raised"
                     /\ pos' = p
    /\ requested' = requested + 1
    /\ budget' = budget + 1
    /\ UNCHANGED << candidates, strategy, year, run, complete, file0 >>
    /\ UNCHANGED << directVars, threadVars, providerVars, plannerVars >>

\* the consumer abandons the generator
Close ==
    /\ status \in { "created", "suspended" }
    /\ status' = "closed"
    /\ UNCHANGED << candidates, strategy, year, cache, pos, events, calls,
                    requested, budget, run, complete, file0 >>
    /\ UNCHANGED << directVars, threadVars, providerVars, plannerVars >>

\* resolve() is called again with the same arguments on the same resolver
Resolve ==
    /\ status \in { "done", "raised", "closed" }
    /\ run < MaxRuns
    /\ pos' = StartPos(strategy)
    /\ status' = "created"
    /\ events' = << >>
    /\ calls' = << >>
    /\ requested' = 0
    /\ run' = run + 1
    /\ complete' = (complete /\ status = "done")
    /\ file0' = cache.file
    /\ UNCHANGED << candidates, strategy, year, cache, budget >>
    /\ UNCHANGED << directVars, threadVars, providerVars, plannerVars >>

Next ==
    \/ ResumeUnknown
    \/ ResumeEnd
    \/ ResumeEq
    \/ ResumeDisc
    \/ Close
    \/ Resolve

Spec == Init /\ [][Next]_vars

\* ------------------------------------------------------------------------
\* NamePlanCache used directly, by one thread: get, put, has_hits and
\* mark_has_hits in any order, the process ending and a new NamePlanCache
\* taking over the path, and a fresh NamePlanCache opened on the path to
\* read what the file holds
\* ------------------------------------------------------------------------

CacheKeys ==
    { CacheKey("uspto", 2020, "discover", "A"),
      CacheKey("uspto", 2020, "eq", "A"),
      CacheKey("epo", 0, "eq", "A") }

CacheVals ==
    { [has_hits |-> TRUE], [has_hits |-> FALSE], [has_hits |-> TRUE, note |-> "n"] }

\* the resolver is not in use
NoResolver ==
    /\ candidates = << >>
    /\ strategy = "unknown"
    /\ year = None
    /\ pos = EndPos
    /\ status = "closed"
    /\ events = << >>
    /\ calls = << >>
    /\ requested = 0
    /\ budget = 0
    /\ run = 0
    /\ complete = TRUE
    /\ file0 = << >>

InitDirect ==
    /\ NoResolver
    /\ cache = NewCache(<< >>)
    /\ fresh = None
    /\ lastPut = << >>
    /\ ops = 0
    /\ failed = None
    /\ error = None
    /\ th = << >>
    /\ lock = 0
    /\ NoProvider
    /\ NoPlanner

\* get(k), whatever k: the first access loads the file
DirectGet ==
    /\ ops < MaxOps
    /\ cache' = _load(cache)
    /\ ops' = ops + 1
    /\ UNCHANGED << fresh, lastPut, failed, error, resolverVars, threadVars, providerVars, plannerVars >>

\* has_hits(k) reads through get
DirectHasHits ==
    /\ ops < MaxOps
    /\ cache' = _load(cache)
    /\ ops' = ops + 1
    /\ UNCHANGED << fresh, lastPut, failed, error, resolverVars, threadVars, providerVars, plannerVars >>

DirectPut ==
    /\ ops < MaxOps
    /\ \E k \in CacheKeys, v \in CacheVals :
          /\ cache' = put(cache, k, v)
          /\ lastPut' = MemSet(lastPut, k, v)
    /\ ops' = ops + 1
    /\ fresh' = None
    /\ failed' = None
    /\ error' = None
    /\ UNCHANGED << resolverVars, threadVars, providerVars, plannerVars >>

\* mark_has_hits hands the merged entry to put
DirectMark ==
    /\ ops < MaxOps
    /\ \E k \in CacheKeys, b \in BOOLEAN :
          /\ cache' = mark_has_hits(cache, k, b)
          /\ lastPut' = MemSet(lastPut, k, Merge(get(cache, k), b))
    /\ ops' = ops + 1
    /\ fresh' = None
    /\ failed' = None
    /\ error' = None
    /\ UNCHANGED << resolverVars, threadVars, providerVars, plannerVars >>

\* put(k, v) on a disk that refuses the append (mark_has_hits fails the
\* same way, inside its put): the OSError reaches the caller
DirectPutFails ==
    /\ ops < MaxOps
    /\ \E k \in CacheKeys, v \in CacheVals :
          /\ cache' = put_append_raises(cache, k, v)
          /\ failed' = Some([provider |-> k[1], year |-> k[2], op |-> k[3],
                             key |-> k[4], val |-> v])
    /\ ops' = ops + 1
    /\ UNCHANGED << fresh, lastPut, error, resolverVars, threadVars, providerVars, plannerVars >>

\* a new NamePlanCache(path) replaces the object in use
DirectRestart ==
    /\ cache.loaded
    /\ cache' = NewCache(cache.file)
    /\ UNCHANGED << fresh, lastPut, ops, failed, error, resolverVars, threadVars, providerVars, plannerVars >>

\* a fresh NamePlanCache(path) is opened and read
DirectOpen ==
    /\ fresh = None
    /\ fresh' = Some(_load(NewCache(cache.file)))
    /\ UNCHANGED << cache, lastPut, ops, failed, error, resolverVars, threadVars, providerVars, plannerVars >>

NextDirect ==
    \/ DirectGet
    \/ DirectHasHits
    \/ DirectPut
    \/ DirectMark
    \/ DirectPutFails
    \/ DirectRestart
    \/ DirectOpen

SpecCache == InitDirect /\ [][NextDirect]_vars

\* ------------------------------------------------------------------------
\* One NamePlanCache shared by threads.  A step is what a thread does
\* between two points where another thread can run: a read or a write of
\* _loaded or _mem, taking _LOCK, the file access made while holding it.
\* th[t] = [pc, kind, k, val, res, left]: pc the place in the operation,
\* kind/k/val the call, res the value a get returned, left the number of
\* operations the thread may still call.
\*   pc: "idle"    between operations
\*       "load"    _load: "if self._loaded: return", "if not self.path.exists()"
\*       "lock_r"  _load: "with _LOCK:" waits for the lock
\*       "read"    _load: the file is read into _mem, the lock released
\*       "loaded"  _load: "self._loaded = True"
\*       "body"    get: "self._mem.get(...)"; mark_has_hits: "cur = ..."
\*       "set"     put: "self._mem[key_tuple] = val"
\*       "lock_w"  put: "with _LOCK:" waits for the lock
\*       "append"  put: the line is appended, the lock released
\* ------------------------------------------------------------------------

Threads == { 1, 2 }

ThreadKeys == { CacheKey("uspto", 2020, "discover", "A"), CacheKey("uspto", 2020, "eq", "A") }

ThreadVals == { [has_hits |-> TRUE], [has_hits |-> FALSE] }

ThreadInitFiles ==
    { << >>,
      << Dumps([provider |-> "uspto", year |-> 2020, op |-> "discover",
                key |-> "A", val |-> [has_hits |-> FALSE]]) >> }

InitThreads ==
    /\ NoResolver
    /\ cache \in { NewCache(f) : f \in ThreadInitFiles }
    /\ fresh = None
    /\ lastPut = << >>
    /\ ops = 0
    /\ failed = None
    /\ error = None
    /\ th = [t \in Threads |->
               [pc |-> "idle", kind |-> "get",
                k |-> CacheKey("uspto", 2020, "discover", "A"),
                val |-> [has_hits |-> FALSE], res |-> None, left |-> MaxThreadOps]]
    /\ lock = 0
    /\ NoProvider
    /\ NoPlanner

Goto(t, pc) == th' = [th EXCEPT ![t].pc = pc]

\* a thread calls get(k), put(k, val) or mark_has_hits(k, val.has_hits)
Call(t) ==
    /\ th[t].pc = "idle"
    /\ th[t].left > 0
    /\ \E kind \in { "get", "put", "mark" }, k \in ThreadKeys, v \in ThreadVals :
          th' = [th EXCEPT ![t] = [pc |-> "load", kind |-> kind, k |-> k, val |-> v,
                                   res |-> None, left |-> th[t].left - 1]]
    /\ UNCHANGED << cache, lock, resolverVars, directVars, providerVars, plannerVars >>

\* _load up to "with _LOCK:"
LoadCheck(t) ==
    /\ th[t].pc = "load"
    /\ IF cache.loaded
       THEN Goto(t, IF th[t].kind = "put" THEN "set" ELSE "body") /\ cache' = cache
       ELSE IF cache.file = << >>
            THEN /\ cache' = [cache EXCEPT !.loaded = TRUE]
                 /\ Goto(t, IF th[t].kind = "put" THEN "set" ELSE "body")
            ELSE Goto(t, "lock_r") /\ cache' = cache
    /\ UNCHANGED << lock, resolverVars, directVars, providerVars, plannerVars >>

LoadLock(t) ==
    /\ th[t].pc = "lock_r"
    /\ lock = 0
    /\ lock' = t
    /\ Goto(t, "read")
    /\ UNCHANGED << cache, resolverVars, directVars, providerVars, plannerVars >>

LoadRead(t) ==
    /\ th[t].pc = "read"
    /\ cache' = [cache EXCEPT !.mem = LoadLines(cache.mem, cache.file)]
    /\ lock' = 0
    /\ Goto(t, "loaded")
    /\ UNCHANGED << resolverVars, directVars, providerVars, plannerVars >>

LoadDone(t) ==
    /\ th[t].pc = "loaded"
    /\ cache' = [cache EXCEPT !.loaded = TRUE]
    /\ Goto(t, IF th[t].kind = "put" THEN "set" ELSE "body")
    /\ UNCHANGED << lock, resolverVars, directVars, providerVars, plannerVars >>

\* get: return self._mem.get(...)
GetRead(t) ==
    /\ th[t].pc = "body"
    /\ th[t].kind = "get"
    /\ th' = [th EXCEPT ![t].pc = "idle",
                         ![t].res = IF th[t].k \in DOMAIN cache.mem
                                    THEN Some(cache.mem[th[t].k]) ELSE None]
    /\ UNCHANGED << cache, lock, resolverVars, directVars, providerVars, plannerVars >>

\* mark_has_hits: cur = self._mem.get(key_tuple, {}), merged, handed to put
\* (whose _load returns at once: this thread has seen _loaded set)
MarkRead(t) ==
    /\ th[t].pc = "body"
    /\ th[t].kind = "mark"
    /\ th' = [th EXCEPT ![t].pc = "set",
                         ![t].val = Merge(IF th[t].k \in DOMAIN cache.mem
                                          THEN Some(cache.mem[th[t].k]) ELSE None,
                                          th[t].val.has_hits)]
    /\ UNCHANGED << cache, lock, resolverVars, directVars, providerVars, plannerVars >>

\* put: self._mem[key_tuple] = val
PutSet(t) ==
    /\ th[t].pc = "set"
    /\ cache' = [cache EXCEPT !.mem = MemSet(cache.mem, th[t].k, th[t].val)]
    /\ Goto(t, "lock_w")
    /\ UNCHANGED << lock, resolverVars, directVars, providerVars, plannerVars >>

PutLock(t) ==
    /\ th[t].pc = "lock_w"
    /\ lock = 0
    /\ lock' = t
    /\ Goto(t, "append")
    /\ UNCHANGED << cache, resolverVars, directVars, providerVars, plannerVars >>

PutAppend(t) ==
    /\ th[t].pc = "append"
    /\ cache' = [cache EXCEPT !.file =
                    Append(cache.file,
                           Dumps([provider |-> th[t].k[1], year |-> th[t].k[2],
                                  op |-> th[t].k[3], key |-> th[t].k[4],
                                  val |-> th[t].val]))]
    /\ lock' = 0
    /\ Goto(t, "idle")
    /\ UNCHANGED << resolverVars, directVars, providerVars, plannerVars >>

NextThreads ==
    \E t \in Threads :
        \/ Call(t)
        \/ LoadCheck(t)
        \/ LoadLock(t)
        \/ LoadRead(t)
        \/ LoadDone(t)
        \/ GetRead(t)
        \/ MarkRead(t)
        \/ PutSet(t)
        \/ PutLock(t)
        \/ PutAppend(t)

SpecThreads == InitThreads /\ [][NextThreads]_vars


\* ------------------------------------------------------------------------
\* variants.py: the variant planner.  A name is a string; Chars gives its
\* characters, where one element stands for a whole word of letters ("a" a
\* word in lower case, "A" the same word in upper case, "ab" and "AB" the
\* legal designator AB) or for one blank.  Names is the set of strings the
\* model computes with; it is closed under _squash_ws and upper-casing.
\* ------------------------------------------------------------------------

Chars(s) ==
    CASE s = ""      -> << >>
      [] s = " "     -> << " " >>
      [] s = "A"     -> << "A" >>
      [] s = "B"     -> << "B" >>
      [] s = "a"     -> << "a" >>
      [] s = " a"    -> << " ", "a" >>
      [] s = "a ab"  -> << "a", " ", "ab" >>
      [] s = "a  ab" -> << "a", " ", " ", "ab" >>
      [] s = "A AB"  -> << "A", " ", "AB" >>
      [] s = "cached_hit" -> << "cached_hit" >>

Names == { "", " ", "A", "B", "a", " a", "a ab", "a  ab", "A AB" }

Str(cs) == CHOOSE s \in Names : Chars(s) = cs

\* str.upper() and str.lower(), character by character
UpperChar(c) == CASE c = "a" -> "A" [] c = "ab" -> "AB" [] OTHER -> c

LowerChar(c) == CASE c = "A" -> "a" [] c = "AB" -> "ab" [] c = "B" -> "b" [] OTHER -> c

Upper(cs) == [i \in 1..Len(cs) |-> UpperChar(cs[i])]

\* str.split(): the maximal runs of non-blank characters
RECURSIVE Split(_, _)
Split(cs, cur) ==
    IF cs = << >> THEN (IF cur = << >> THEN << >> ELSE << cur >>)
    ELSE IF Head(cs) = " "
         THEN (IF cur = << >> THEN << >> ELSE << cur >>) \o Split(Tail(cs), << >>)
         ELSE Split(Tail(cs), Append(cur, Head(cs)))

\* " ".join(words)
RECURSIVE Join(_)
Join(words) ==
    IF words = << >> THEN << >>
    ELSE IF Len(words) = 1 THEN Head(words)
    ELSE Head(words) \o << " " >> \o Join(Tail(words))

_squash_ws(s) == Str(Join(Split(Chars(s), << >>)))

\* the designators of _DESIGNATOR_TOKENS that words of Names can spell
_DESIGNATOR_TOKENS == { << "ab" >> }

_normalize_token(tok) == [i \in 1..Len(tok) |-> LowerChar(tok[i])]

_has_designator(name) ==
    LET toks == Split(Chars(name), << >>)
    IN \E i \in 1..Len(toks) : _normalize_token(toks[i]) \in _DESIGNATOR_TOKENS

\* ------------------------------------------------------------------------
\* idmap/discovery.py: the token-boundary guard of discover_orgs_via_begins
\* ------------------------------------------------------------------------

\* str.strip()
Strip(cs) ==
    LET RECURSIVE LStrip(_)
        LStrip(x) == IF x # << >> /\ Head(x) = " " THEN LStrip(Tail(x)) ELSE x
        RECURSIVE RStrip(_)
        RStrip(x) == IF x # << >> /\ x[Len(x)] = " "
                     THEN RStrip(SubSeq(x, 1, Len(x) - 1)) ELSE x
    IN RStrip(LStrip(cs))

\* _norm_words: lower case, every run of other characters one blank
_norm_words(s) == Join(Split(_normalize_token(Chars(s)), << >>))

\* "if raw_ok or boundary_ok", with a.startswith(b) as StartsWith
boundary_guard(prefix, org) ==
    LET StartsWith(a, b) == Len(b) <= Len(a) /\ SubSeq(a, 1, Len(b)) = b
        want_raw == Strip(Chars(prefix))
        want_words == _norm_words(prefix)
        org_raw == Strip(Chars(org))
        ow == Join(Split(_normalize_token(org_raw), << >>))
        raw_ok == want_raw # << >> /\ StartsWith(org_raw, want_raw)
        boundary_ok ==
            /\ want_words # << >>
            /\ StartsWith(ow, want_words)
            /\ (Len(ow) = Len(want_words) \/ ow[Len(want_words) + 1] = " ")
    IN raw_ok \/ boundary_ok

\* types.py: Bucket, in the order of its definition
Bucket ==
    << "orig", "gleif_legal", "gleif_other", "gleif_sub",
       "expand_orig", "expand_legal", "expand_other", "expand_sub" >>

VariantItem(name, bucket, kind) == [name |-> name, bucket |-> bucket, kind |-> kind]

\* the planner's working state is [out, seen]
_add_uc_variant_unseen(st, name, bucket) ==
    LET uc == Str(Join(Split(Upper(Chars(name)), << >>)))
    IN IF uc = "" THEN st
       ELSE [out |-> Append(st.out, VariantItem(uc, bucket, "seed")),
             seen |-> st.seen \cup { uc }]

_add_uc_variant(st, name, bucket) ==
    LET uc == Str(Join(Split(Upper(Chars(name)), << >>)))
    IN IF uc = "" THEN st
       ELSE IF uc \in st.seen THEN st
       ELSE IF uc = _squash_ws(name) THEN [st EXCEPT !.seen = st.seen \cup { uc }]
       ELSE [out |-> Append(st.out, VariantItem(uc, bucket, "seed")),
             seen |-> st.seen \cup { uc }]

push(st, name, bucket, kind) ==
    LET nv == _squash_ws(name)
    IN IF nv = "" \/ nv \in st.seen THEN st
       ELSE [out |-> Append(st.out, VariantItem(nv, bucket, kind)),
             seen |-> st.seen \cup { nv }]

\* "for nm in names: if nm: push(nm, bucket, 'seed'); _add_uc_variant(...)"
RECURSIVE push_seeds(_, _, _)
push_seeds(st, names, bucket) ==
    IF names = << >> THEN st
    ELSE IF Head(names) = "" THEN push_seeds(st, Tail(names), bucket)
    ELSE push_seeds(_add_uc_variant(push(st, Head(names), bucket, "seed"),
                                    Head(names), bucket),
                    Tail(names), bucket)

\* the loop of expand_many over expanded = list(expand_query_variants(seed))
RECURSIVE expand_loop(_, _, _, _)
expand_loop(st, seed, expanded, bucket) ==
    IF expanded = << >> THEN st
    ELSE LET v == Head(expanded)
             skip == \/ v = ""
                     \/ _squash_ws(v) = _squash_ws(seed)
                     \/ ~_has_designator(v)
         IN expand_loop(IF skip THEN st
                        ELSE _add_uc_variant(push(st, v, bucket, "expand"), v, bucket),
                        seed, Tail(expanded), bucket)

\* expand holds what expand_query_variants returns for each seed
expand_many(st, seed, bucket, expand) == expand_loop(st, seed, expand[seed], bucket)

RECURSIVE expand_each(_, _, _, _, _)
expand_each(st, names, bucket, expand, guarded) ==
    IF names = << >> THEN st
    ELSE IF guarded /\ Head(names) = ""
    THEN expand_each(st, Tail(names), bucket, expand, guarded)
    ELSE expand_each(expand_many(st, _squash_ws(Head(names)), bucket, expand),
                     Tail(names), bucket, expand, guarded)

\* "if x:" on a string argument
OneIf(s) == IF s = "" THEN << >> ELSE << s >>

build_bucketed_variants(a, expand) ==
    LET s1 == push_seeds([out |-> << >>, seen |-> {}], OneIf(a.base_name), "orig")
        s2 == push_seeds(s1, OneIf(a.gleif_legal), "gleif_legal")
        s3 == push_seeds(s2, a.gleif_other_names, "gleif_other")
        s4 == push_seeds(s3, a.subsidiaries, "gleif_sub")
        e1 == expand_each(s4, OneIf(a.gleif_legal), "expand_legal", expand, TRUE)
        e2 == expand_each(e1, a.gleif_other_names, "expand_other", expand, TRUE)
        e3 == expand_each(e2, OneIf(a.base_name), "expand_orig", expand, TRUE)
        e4 == expand_each(e3, a.subsidiaries, "expand_sub", expand, FALSE)
        out == IF a.include_expansions THEN e4.out ELSE s4.out
    IN IF a.max_variants > 0 /\ a.max_variants < Len(out)
       THEN SubSeq(out, 1, a.max_variants)
       ELSE out

\* arguments of build_bucketed_variants
BaseNames == { "", "a", "a  ab", "A AB" }

LegalNames == { "", "a ab", " a" }

NameLists == { << >>, << "A" >>, << " ", "a ab" >> }

MaxVariants == { 0, 2 }

VariantArgs ==
    [base_name : BaseNames, gleif_legal : LegalNames,
     gleif_other_names : NameLists, subsidiaries : NameLists,
     include_expansions : BOOLEAN, max_variants : MaxVariants]

\* lists expand_query_variants may return for a seed
Expansions == { << >>, << "a", "a ab", "" >>, << "A AB", "a  ab" >>, << "A AB" >> }

\* the names build_bucketed_variants expands
ExpandSeeds(a) ==
    { _squash_ws(n) :
         n \in { a.base_name, a.gleif_legal }
               \cup { a.gleif_other_names[i] : i \in 1..Len(a.gleif_other_names) }
               \cup { a.subsidiaries[i] : i \in 1..Len(a.subsidiaries) } }

InitVariants ==
    /\ NoResolver
    /\ cache = NewCache(<< >>)
    /\ fresh = None
    /\ lastPut = << >>
    /\ ops = 0
    /\ failed = None
    /\ error = None
    /\ th = << >>
    /\ lock = 0
    /\ NoProvider
    /\ planArgs \in VariantArgs
    /\ expansions \in [ExpandSeeds(planArgs) -> Expansions]
    /\ variants = None
    /\ planRuns = 0
    /\ planCalls = << >>
    /\ planResult = None

\* build_bucketed_variants(**planArgs) returns
Build ==
    /\ variants = None
    /\ variants' = Some(build_bucketed_variants(planArgs, expansions))
    /\ UNCHANGED << planArgs, expansions, planRuns, planCalls, planResult >>
    /\ UNCHANGED << cache, resolverVars, directVars, threadVars, providerVars >>

NextVariants == Build

SpecVariants == InitVariants /\ [][NextVariants]_vars

\* ------------------------------------------------------------------------
\* runner.py: plan_names.  One call is one step: it builds the variants,
\* probes them against the provider through the cache and returns a
\* NamePlanResult.  disc and eq hold what discover_orgs_via_begins and
\* eq_count do for each name (a key is sent to the provider at most once
\* in a call: after that the cache holds an entry for it).
\* ------------------------------------------------------------------------

PRINT_ORDER(b) ==
    CASE b = "orig" -> 0
      [] b = "gleif_legal" -> 1
      [] b = "gleif_other" -> 2
      [] b = "gleif_sub" -> 3
      [] b = "expand_legal" -> 4
      [] b = "expand_other" -> 5
      [] b = "expand_orig" -> 6
      [] b = "expand_sub" -> 7

\* sorted(variants, key=PRINT_ORDER): a stable sort
RECURSIVE sorted_from(_, _)
sorted_from(vs, r) ==
    IF r > 7 THEN << >>
    ELSE SelectSeq(vs, LAMBDA v : PRINT_ORDER(v.bucket) = r) \o sorted_from(vs, r + 1)

variants_sorted(vs) == sorted_from(vs, 0)

\* cached.get("has_hits", False)
HasHitsField(val) == IF "has_hits" \in DOMAIN val THEN val.has_hits ELSE FALSE

DictSet(d, k, v) == [x \in (DOMAIN d) \cup {k} |-> IF x = k THEN v ELSE d[x]]

\* a local variable of the Python function: x bound to a value once
With(x, F(_)) == F(x)

\* 2a) the discovery loop; st = [cache, calls, discovery, trace]
RECURSIVE plan_discovery(_, _, _, _, _)
plan_discovery(st, items, provider_name, y, disc) ==
    IF items = << >> THEN st
    ELSE With(get(st.cache, CacheKey(provider_name, y, "discover", Head(items).name)),
              LAMBDA cached :
           With(IF cached = None THEN disc[Head(items).name]
                ELSE [raised |-> FALSE, harvested |-> << >>],
              LAMBDA resp :
           With(IF cached # None
                THEN (IF HasHitsField(cached[1]) THEN << "cached_hit" >> ELSE << >>)
                ELSE (IF resp.raised THEN << >> ELSE resp.harvested),
              LAMBDA found :
           plan_discovery(
                [cache |-> IF cached # None THEN _load(st.cache)
                           ELSE put(st.cache,
                                    CacheKey(provider_name, y, "discover", Head(items).name),
                                    [has_hits |-> Len(found) > 0]),
                 calls |-> IF cached # None THEN st.calls
                           ELSE Append(st.calls,
                                       [op |-> "discover_prefix", name |-> Head(items).name,
                                        stage |-> "plan", raised |-> resp.raised,
                                        total |-> 0, harvested |-> resp.harvested]),
                 discovery |-> DictSet(st.discovery, Head(items).name, found),
                 trace |-> Append(st.trace, [op |-> "discover", name |-> Head(items).name,
                                             bucket |-> Head(items).bucket,
                                             n |-> Len(found)])],
                Tail(items), provider_name, y, disc))))

\* names_to_eq: every variant followed by what discovery found for it
RECURSIVE names_to_eq(_, _)
names_to_eq(items, discovery) ==
    IF items = << >> THEN << >>
    ELSE LET it == Head(items)
             ds == IF it.name \in DOMAIN discovery THEN discovery[it.name] ELSE << >>
         IN << << it.name, it.bucket >> >>
            \o [i \in 1..Len(ds) |-> << ds[i], it.bucket >>]
            \o names_to_eq(Tail(items), discovery)

\* 2b) the exact-count loop; st = [cache, calls, eq_counts, trace, best_*]
RECURSIVE plan_eq(_, _, _, _, _)
plan_eq_last_best(st, todo, provider_name, y, eq) ==
    IF todo = << >> THEN st
    ELSE With(get(st.cache, CacheKey(provider_name, y, "eq", Head(todo)[1])),
              LAMBDA cached :
           With(IF cached = None THEN eq[Head(todo)[1]] ELSE [raised |-> FALSE, total |-> 0],
              LAMBDA resp :
           With(IF cached # None
                THEN (IF HasHitsField(cached[1]) THEN 1 ELSE 0)
                ELSE (IF resp.raised THEN 0 ELSE resp.total),
              LAMBDA cnt :
           plan_eq(
                [cache |-> IF cached # None THEN _load(st.cache)
                           ELSE put(st.cache,
                                    CacheKey(provider_name, y, "eq", Head(todo)[1]),
                                    [has_hits |-> cnt > 0]),
                 calls |-> IF cached # None THEN st.calls
                           ELSE Append(st.calls,
                                       [op |-> "count_eq", name |-> Head(todo)[1],
                                        stage |-> "plan", raised |-> resp.raised,
                                        total |-> resp.total, harvested |-> << >>]),
                 eq_counts |-> DictSet(st.eq_counts, Head(todo)[1], cnt),
                 trace |-> Append(st.trace, [op |-> "eq", name |-> Head(todo)[1],
                                             bucket |-> Head(todo)[2], n |-> cnt]),
                 best_total |-> IF cnt >= st.best_total THEN cnt ELSE st.best_total,
                 best_variant |-> IF cnt >= st.best_total THEN Head(todo)[1]
                                  ELSE st.best_variant,
                 best_bucket |-> IF cnt >= st.best_total THEN Head(todo)[2]
                                 ELSE st.best_bucket],
                Tail(todo), provider_name, y, eq))))

plan_eq(st, todo, provider_name, y, eq) ==
    IF todo = << >> THEN st
    ELSE With(get(st.cache, CacheKey(provider_name, y, "eq", Head(todo)[1])),
              LAMBDA cached :
           With(IF cached = None THEN eq[Head(todo)[1]] ELSE [raised |-> FALSE, total |-> 0],
              LAMBDA resp :
           With(IF cached # None
                THEN (IF HasHitsField(cached[1]) THEN 1 ELSE 0)
                ELSE (IF resp.raised THEN 0 ELSE resp.total),
              LAMBDA cnt :
           plan_eq(
                [cache |-> IF cached # None THEN _load(st.cache)
                           ELSE put(st.cache,
                                    CacheKey(provider_name, y, "eq", Head(todo)[1]),
                                    [has_hits |-> cnt > 0]),
                 calls |-> IF cached # None THEN st.calls
                           ELSE Append(st.calls,
                                       [op |-> "count_eq", name |-> Head(todo)[1],
                                        stage |-> "plan", raised |-> resp.raised,
                                        total |-> resp.total, harvested |-> << >>]),
                 eq_counts |-> DictSet(st.eq_counts, Head(todo)[1], cnt),
                 trace |-> Append(st.trace, [op |-> "eq", name |-> Head(todo)[1],
                                             bucket |-> Head(todo)[2], n |-> cnt]),
                 best_total |-> IF cnt > st.best_total THEN cnt ELSE st.best_total,
                 best_variant |-> IF cnt > st.best_total THEN Head(todo)[1]
                                  ELSE st.best_variant,
                 best_bucket |-> IF cnt > st.best_total THEN Head(todo)[2]
                                 ELSE st.best_bucket],
                Tail(todo), provider_name, y, eq))))

\* plan_names(provider_name, year, ..., probe_opts, cache) with the plan
\* already built: the cache afterwards, the provider calls, the result
plan_names(c, plan, a, disc, eq) ==
    With(IF a.run_discovery
         THEN plan_discovery([cache |-> c, calls |-> << >>, discovery |-> << >>,
                              trace |-> << >>],
                             plan, a.provider_name, a.year, disc)
         ELSE [cache |-> c, calls |-> << >>, discovery |-> << >>, trace |-> << >>],
       LAMBDA d :
    With([cache |-> d.cache, calls |-> d.calls, eq_counts |-> << >>,
          trace |-> d.trace, best_total |-> 0, best_variant |-> "",
          best_bucket |-> ""],
       LAMBDA e0 :
    With(IF a.run_eq
         THEN plan_eq(e0, names_to_eq(plan, d.discovery), a.provider_name, a.year, eq)
         ELSE e0,
       LAMBDA e :
    [cache |-> e.cache, calls |-> e.calls,
     result |-> [plan |-> plan, discovery |-> d.discovery,
                 eq_counts |-> e.eq_counts, best_variant |-> e.best_variant,
                 best_bucket |-> e.best_bucket, best_total |-> e.best_total,
                 trace |-> e.trace]])))

\* arguments of plan_names
PlanVariantArgs ==
    { [base_name |-> "A", gleif_legal |-> "", gleif_other_names |-> << >>,
       subsidiaries |-> << >>, include_expansions |-> FALSE, max_variants |-> 0],
      [base_name |-> "a", gleif_legal |-> "", gleif_other_names |-> << >>,
       subsidiaries |-> << >>, include_expansions |-> TRUE, max_variants |-> 0] }

PlanYears == { 2020 }

PlanNamesArgs ==
    [provider_name : { provider_label }, year : PlanYears, names : PlanVariantArgs,
     run_discovery : BOOLEAN, run_eq : BOOLEAN]

\* what discover_orgs_via_begins answers: a list without repetitions
PlanDiscResponses ==
    [raised : {FALSE}, harvested : { << >>, << "B", "A" >> }]
       \cup {[raised |-> TRUE, harvested |-> << >>]}

NamesOf(items) == { items[i].name : i \in 1..Len(items) }

\* the names of todo the cache c has no entry for under (provider_name, y, op)
Uncached(c, provider_name, y, op, todo) ==
    { n \in todo : get(c, CacheKey(provider_name, y, op, n)) = None }

\* the seeds the discovery loop sends to the provider
DiscNames(c, plan, a) ==
    IF a.run_discovery
    THEN Uncached(c, a.provider_name, a.year, "discover", NamesOf(plan))
    ELSE {}

\* the names the exact-count loop sends to the provider, given what the
\* discovery loop does
EqNames(c, plan, a, disc) ==
    IF a.run_eq
    THEN With(plan_names(c, plan, [a EXCEPT !.run_eq = FALSE], disc, << >>),
           LAMBDA r :
         With(names_to_eq(plan, r.result.discovery),
           LAMBDA todo :
         Uncached(r.cache, a.provider_name, a.year, "eq",
                  { todo[i][1] : i \in 1..Len(todo) })))
    ELSE {}

\* ------------------------------------------------------------------------
\* One cache, empty at the start, shared by resolve() runs of a
\* NameResolver and by plan_names calls, all in one thread: plan_names may
\* run between two next() of a suspended generator, and resolve() may be
\* called again with other arguments.
\* ------------------------------------------------------------------------

InitShared ==
    /\ candidates \in Plans
    /\ strategy \in { "eq_then_discovery", "discovery_first_for_seeds" }
    /\ year \in Years
    /\ cache = NewCache(<< >>)
    /\ pos = StartPos(strategy)
    /\ status = "created"
    /\ events = << >>
    /\ calls = << >>
    /\ requested = 0
    /\ budget = 0
    /\ run = 1
    /\ complete = TRUE
    /\ file0 = cache.file
    /\ fresh = None
    /\ lastPut = << >>
    /\ ops = 0
    /\ failed = None
    /\ error = None
    /\ th = << >>
    /\ lock = 0
    /\ NoProvider
    /\ NoPlanner

\* next() on the generator
SharedResume ==
    /\ budget < MaxSharedRequests
    /\ (ResumeEnd \/ ResumeEq \/ ResumeDisc)

\* resolve() called for the same candidates with another strategy or year
\* once the last generator is finished
ResolveOther ==
    /\ status \in { "done", "raised" }
    /\ run < MaxRuns
    /\ candidates' = candidates
    /\ strategy' \in { "eq_then_discovery", "discovery_first_for_seeds" }
    /\ year' \in Years
    /\ pos' = StartPos(strategy')
    /\ status' = "created"
    /\ events' = << >>
    /\ calls' = << >>
    /\ requested' = 0
    /\ run' = run + 1
    /\ complete' = (complete /\ status = "done")
    /\ file0' = cache.file
    /\ UNCHANGED << cache, budget >>
    /\ UNCHANGED << directVars, threadVars, providerVars, plannerVars >>

\* plan_names called with arguments of A; expand_query_variants finds nothing
PlanNamesOn(A) ==
    /\ planRuns < MaxPlanRuns
    /\ \E a \in A :
       \E ex \in [ExpandSeeds(a.names) -> { << >> }] :
       \E built \in { build_bucketed_variants(a.names, ex) } :
       \E plan \in { variants_sorted(built) } :
       \E disc \in [DiscNames(cache, plan, a) -> PlanDiscResponses] :
       \E eq \in [EqNames(cache, plan, a, disc) -> EqResponses] :
       \E r \in { plan_names(cache, plan, a, disc, eq) } :
          /\ cache' = r.cache
          /\ planCalls' = r.calls
          /\ planResult' = Some(r.result)
          /\ planArgs' = a
          /\ expansions' = ex
          /\ variants' = Some(built)
    /\ planRuns' = planRuns + 1
    /\ UNCHANGED << resolverVars, directVars, threadVars, providerVars >>

\* plan_names for the base name "A" alone
SharedPlanNamesArgs == { a \in PlanNamesArgs : a.names.base_name = "A" }

PlanNames == PlanNamesOn(SharedPlanNamesArgs)

NextShared ==
    \/ SharedResume
    \/ ResolveOther
    \/ PlanNames

SpecShared == InitShared /\ [][NextShared]_vars

\* ------------------------------------------------------------------------
\* providers/uspto.py, providers/epo.py: the pacing gate.  _set_rpm, _pace
\* and the call of _pace at the head of _post / _search are the same text
\* in both classes.  Time is time.monotonic() in whole seconds; a caller is
\* a thread running _post (or _search) on the one provider instance:
\*   pc: "idle"   between calls
\*       "pace"   _pace: "now = time.monotonic()"
\*       "wait"   _pace: "wait = self._min_interval - (now - self._last_ts)"
\*       "sleep"  _pace: "time.sleep(wait)", until wake at the earliest
\*       "stamp"  _pace: "self._last_ts = time.monotonic()"; the request starts
\*       "post"   the HTTP exchange, retries included, of any duration
\* wire lists the requests in the order they started.
\* ------------------------------------------------------------------------

Rpms == { 20, 30, 60 }

InitClocks == { 0, 2 }

Callers == { 1, 2 }

Max(a, b) == IF a >= b THEN a ELSE b

\* _set_rpm: the fields it assigns
_set_rpm(rpm) == [min_interval |-> 60 \div Max(1, rpm), last_ts |-> 0]

InitPacing ==
    /\ NoResolver
    /\ cache = NewCache(<< >>)
    /\ fresh = None
    /\ lastPut = << >>
    /\ ops = 0
    /\ failed = None
    /\ error = None
    /\ th = << >>
    /\ lock = 0
    /\ NoPlanner
    /\ NoRetry
    /\ NoToken
    /\ NoRegistry
    /\ NoTools
    /\ clock \in InitClocks
    /\ \E rpm \in Rpms :
          /\ _min_interval = _set_rpm(rpm).min_interval
          /\ _last_ts = _set_rpm(rpm).last_ts
    /\ callers = [t \in Callers |-> [pc |-> "idle", now |-> 0, wake |-> 0]]
    /\ wire = << >>

paceFrame == UNCHANGED << cache, resolverVars, directVars, threadVars, plannerVars, retryVars, tokenVars, registryVars, toolVars >>

\* time passes
Tick ==
    /\ clock < MaxClock
    /\ clock' = clock + 1
    /\ UNCHANGED << _min_interval, _last_ts, callers, wire >>
    /\ paceFrame

\* calls of _post / _search made so far
Calls == Len(wire) + Cardinality({t \in Callers : callers[t].pc \in { "pace", "wait", "sleep", "stamp" }})

\* a thread calls _post / _search
CallPost(t) ==
    /\ callers[t].pc = "idle"
    /\ Calls < MaxCalls
    /\ callers' = [callers EXCEPT ![t].pc = "pace"]
    /\ UNCHANGED << clock, _min_interval, _last_ts, wire >>
    /\ paceFrame

PaceNow(t) ==
    /\ callers[t].pc = "pace"
    /\ callers' = [callers EXCEPT ![t].pc = "wait", ![t].now = clock]
    /\ UNCHANGED << clock, _min_interval, _last_ts, wire >>
    /\ paceFrame

PaceWait(t) ==
    /\ callers[t].pc = "wait"
    /\ LET wait == _min_interval - (callers[t].now - _last_ts)
       IN callers' = IF wait > 0
                     THEN [callers EXCEPT ![t].pc = "sleep", ![t].wake = clock + wait]
                     ELSE [callers EXCEPT ![t].pc = "stamp"]
    /\ UNCHANGED << clock, _min_interval, _last_ts, wire >>
    /\ paceFrame

\* time.sleep returns, not before the time asked for
PaceWake(t) ==
    /\ callers[t].pc = "sleep"
    /\ clock >= callers[t].wake
    /\ callers' = [callers EXCEPT ![t].pc = "stamp"]
    /\ UNCHANGED << clock, _min_interval, _last_ts, wire >>
    /\ paceFrame

\* _pace returns and the request goes out
PaceStamp(t) ==
    /\ callers[t].pc = "stamp"
    /\ _last_ts' = clock
    /\ wire' = Append(wire, [by |-> t, start |-> clock, done |-> None])
    /\ callers' = [callers EXCEPT ![t].pc = "post"]
    /\ UNCHANGED << clock, _min_interval >>
    /\ paceFrame

\* the request of t that is under way
Pending(t) == CHOOSE i \in 1..Len(wire) : wire[i].by = t /\ wire[i].done = None

\* the exchange ends: a response or an exception
PostDone(t) ==
    /\ callers[t].pc = "post"
    /\ wire' = [wire EXCEPT ![Pending(t)].done = Some(clock)]
    /\ callers' = [callers EXCEPT ![t].pc = "idle"]
    /\ UNCHANGED << clock, _min_interval, _last_ts >>
    /\ paceFrame

NextPacing ==
    \/ Tick
    \/ \E t \in Callers :
          \/ CallPost(t)
          \/ PaceNow(t)
          \/ PaceWait(t)
          \/ PaceWake(t)
          \/ PaceStamp(t)
          \/ PostDone(t)

SpecPacing == InitPacing /\ [][NextPacing]_vars

\* ------------------------------------------------------------------------
\* providers/uspto.py, providers/epo.py: set_rpm on a provider in use.  One
\* thread sends requests through _pace and calls set_rpm between them.
\* ------------------------------------------------------------------------

\* set_rpm(rpm), called between two requests
SetRpm(t) ==
    /\ callers[t].pc = "idle"
    /\ \E rpm \in Rpms :
          /\ _min_interval' = _set_rpm(rpm).min_interval
          /\ _last_ts' = _set_rpm(rpm).last_ts
    /\ UNCHANGED << clock, callers, wire >>
    /\ paceFrame

NextSetRpm ==
    \/ Tick
    \/ SetRpm(1)
    \/ CallPost(1)
    \/ PaceNow(1)
    \/ PaceWait(1)
    \/ PaceWake(1)
    \/ PaceStamp(1)
    \/ PostDone(1)

SpecSetRpm == InitPacing /\ [][NextSetRpm]_vars

\* ------------------------------------------------------------------------
\* providers: what one request does when the server or the network fails.
\* UsptoProvider mounts HTTPAdapter(max_retries=Retry(total=6,
\* status_forcelist=RETRY_STATUS_FORCELIST, raise_on_status=False)) on its
\* session and calls raise_for_status on what session.post returns;
\* EpoProvider uses a plain requests.Session (no retries) and
\* _count_for_query returns 0 for 404 and calls raise_for_status for every
\* other status >= 400.  An attempt ends with a status, or with
\* error = TRUE when the transport failed.
\* ------------------------------------------------------------------------

RetryTotal == 6

RETRY_STATUS_FORCELIST == { 429, 500, 502, 503, 504 }

ProviderKinds == { "uspto", "epo" }

AttemptResults ==
    [error : {FALSE}, status : { 200, 400, 404, 429, 503 }]
       \cup {[error |-> TRUE, status |-> 0]}

\* retries the session of the provider class makes
max_retries(k) == IF k = "uspto" THEN RetryTotal ELSE 0

\* the adapter retries transport errors and forcelist statuses
Retriable(a) == a.error \/ a.status \in RETRY_STATUS_FORCELIST

\* what the caller of _post / _count_for_query gets for the final attempt
Surface(k, a) ==
    IF a.error THEN "raised"
    ELSE IF k = "epo" /\ a.status = 404 THEN "returned"
    ELSE IF a.status >= 400 THEN "raised"
    ELSE "returned"

\* what the body of the response is: JSON or XML holding the total, an
\* XML <fault> document, or anything else
Bodies == { "json_total", "xml_total", "fault", "unknown" }

\* @total-result-count of a body that holds one
Totals == { 0, 5 }

\* EpoProvider._count_for_query on the response _search returned
_count_for_query(status_code, body, total) ==
    IF status_code = 404
    THEN [status |-> status_code, body |-> body, raised |-> FALSE, total |-> 0]
    ELSE IF status_code >= 400
    THEN [status |-> status_code, body |-> body, raised |-> TRUE, total |-> 0]
    ELSE IF body \in { "json_total", "xml_total" }
    THEN [status |-> status_code, body |-> body, raised |-> FALSE, total |-> total]
    ELSE [status |-> status_code, body |-> body, raised |-> FALSE, total |-> 0]

InitRetry ==
    /\ NoResolver
    /\ cache = NewCache(<< >>)
    /\ fresh = None
    /\ lastPut = << >>
    /\ ops = 0
    /\ failed = None
    /\ error = None
    /\ th = << >>
    /\ lock = 0
    /\ NoPlanner
    /\ NoPacing
    /\ NoToken
    /\ NoRegistry
    /\ NoTools
    /\ provider \in ProviderKinds
    /\ attempts = << >>
    /\ outcome = "ready"
    /\ requests = 0
    /\ counted = None

retryFrame == UNCHANGED << cache, resolverVars, directVars, threadVars, plannerVars, paceVars, tokenVars, registryVars, toolVars >>

\* one attempt of the request: sent, answered or failed; the adapter
\* retries it or hands the result to the provider method
Attempt ==
    /\ outcome = "ready"
    /\ \E a \in AttemptResults :
          /\ attempts' = Append(attempts, a)
          /\ IF Retriable(a) /\ Len(attempts) < max_retries(provider)
             THEN /\ outcome' = "backoff"
                  /\ counted' = None
             ELSE /\ outcome' = Surface(provider, a)
                  /\ IF provider = "epo" /\ ~a.error
                     THEN \E body \in Bodies, total \in Totals :
                             counted' = Some(_count_for_query(a.status, body, total))
                     ELSE counted' = None
    /\ UNCHANGED << provider, requests >>
    /\ retryFrame

\* the adapter sleeps its backoff and sends again
Backoff ==
    /\ outcome = "backoff"
    /\ outcome' = "ready"
    /\ UNCHANGED << provider, attempts, requests, counted >>
    /\ retryFrame

\* the provider method is called again
NextRequest ==
    /\ outcome \in { "raised", "returned" }
    /\ requests < MaxHttpRequests
    /\ requests' = requests + 1
    /\ attempts' = << >>
    /\ outcome' = "ready"
    /\ counted' = None
    /\ UNCHANGED provider
    /\ retryFrame

NextRetry ==
    \/ Attempt
    \/ Backoff
    \/ NextRequest

SpecRetry == InitRetry /\ [][NextRetry]_vars

\* ------------------------------------------------------------------------
\* idmap/variants.py: build_cache_aware_variants.  planArgs holds the
\* arguments: names (those of build_bucketed_variants), cache_given
\* (cache is not None), provider_name and year (Optional[int]).
\* ------------------------------------------------------------------------

build_cache_aware_variants_any_op(a, expand, c) ==
    IF a.cache_given
       /\ \E op \in { "discover", "eq" } :
             has_hits(c, CacheKey(a.provider_name, _year(a.year), op, a.names.base_name))
    THEN << VariantItem(a.names.base_name, "orig", "seed") >>
    ELSE build_bucketed_variants(a.names, expand)

build_cache_aware_variants(a, expand, c) ==
    IF a.cache_given
       /\ has_hits(c, CacheKey(a.provider_name, _year(a.year), "discover", a.names.base_name))
    THEN << VariantItem(a.names.base_name, "orig", "seed") >>
    ELSE build_bucketed_variants(a.names, expand)

AwareArgs ==
    [names : { a \in VariantArgs :
                  /\ a.base_name \in { "", "a", "a  ab" }
                  /\ a.gleif_other_names = << >>
                  /\ a.subsidiaries = << >> },
     cache_given : BOOLEAN,
     provider_name : { "uspto", "epo" },
     year : { None, Some(0), Some(2020) }]

\* one record of the log
AwareLine(provider_name, y, op, key, b) ==
    Dumps([provider |-> provider_name, year |-> y, op |-> op, key |-> key,
           val |-> [has_hits |-> b]])

\* log files of the cache handed to build_cache_aware_variants
AwareFiles ==
    { << >>,
      << AwareLine("uspto", 0, "discover", "a", TRUE) >>,
      << AwareLine("uspto", 0, "discover", "a", FALSE) >>,
      << AwareLine("uspto", 2020, "discover", "a", TRUE) >>,
      << AwareLine("epo", 0, "discover", "a", TRUE) >>,
      << AwareLine("uspto", 0, "eq", "a", TRUE) >>,
      << AwareLine("uspto", 0, "discover", "a ab", TRUE) >>,
      << AwareLine("uspto", 2020, "discover", "a  ab", TRUE),
         AwareLine("uspto", 2020, "discover", "", TRUE) >>,
      << AwareLine("uspto", 0, "discover", "a", TRUE),
         AwareLine("uspto", 0, "discover", "a", FALSE) >> }

InitAware ==
    /\ NoResolver
    /\ cache \in { NewCache(f) : f \in AwareFiles }
    /\ fresh = None
    /\ lastPut = << >>
    /\ ops = 0
    /\ failed = None
    /\ error = None
    /\ th = << >>
    /\ lock = 0
    /\ NoProvider
    /\ planArgs \in AwareArgs
    /\ expansions \in [ExpandSeeds(planArgs.names) -> { << >>, << "a", "a ab", "" >> }]
    /\ variants = None
    /\ planRuns = 0
    /\ planCalls = << >>
    /\ planResult = None

\* build_cache_aware_variants(**planArgs) returns; has_hits has loaded the
\* cache when one was given
BuildAware ==
    /\ variants = None
    /\ variants' = Some(build_cache_aware_variants(planArgs, expansions, cache))
    /\ cache' = IF planArgs.cache_given THEN _load(cache) ELSE cache
    /\ UNCHANGED << planArgs, expansions, planRuns, planCalls, planResult >>
    /\ UNCHANGED << resolverVars, directVars, threadVars, providerVars >>

NextAware == BuildAware

SpecAware == InitAware /\ [][NextAware]_vars

\* ------------------------------------------------------------------------
\* A NamePlanCache opened on a log file other writers have touched: each
\* line is a record put wrote, text that is no JSON, a JSON object without
\* the fields, a record whose val is no JSON object (the number 5, written
\* [number |-> 5]), or bytes the utf-8 decoder of the text-mode file
\* rejects.  int(rec["year"]) is the identity on the years of the model.
\* ------------------------------------------------------------------------

\* the bytes of the line are valid utf-8
Decodes(line) == line.json \/ line.obj # "\\xff"

\* isinstance(val, dict)
IsDict(val) == "number" \notin DOMAIN val

LoadKeys ==
    { CacheKey("uspto", 2020, "eq", "A"), CacheKey("uspto", 2020, "discover", "A") }

LogLines ==
    { Dumps([provider |-> "uspto", year |-> 2020, op |-> "eq", key |-> "A",
             val |-> [has_hits |-> TRUE]]),
      Dumps([provider |-> "uspto", year |-> 2020, op |-> "eq", key |-> "A",
             val |-> [has_hits |-> FALSE]]),
      Dumps([provider |-> "uspto", year |-> 2020, op |-> "eq", key |-> "A",
             val |-> [number |-> 5]]),
      Dumps([provider |-> "uspto", year |-> 2020]),
      [json |-> FALSE, obj |-> "invalid json"],
      [json |-> FALSE, obj |-> "\\xff"] }

LoadFiles ==
    { << >> } \cup { << l >> : l \in LogLines }
              \cup { << l1, l2 >> : l1 \in LogLines, l2 \in LogLines }

\* lines of the file "for line in fh" hands out before the decoder raises
\* (the file is decoded in blocks): any number below the first bad one
Readable(file) == { n \in 0..Len(file) : \A i \in 1..n : Decodes(file[i]) }

\* _load runs into UnicodeDecodeError
_load_raises(c) == ~c.loaded /\ \E i \in 1..Len(c.file) : ~Decodes(c.file[i])

InitLoad ==
    /\ NoResolver
    /\ cache \in { NewCache(f) : f \in LoadFiles }
    /\ fresh = None
    /\ lastPut = << >>
    /\ ops = 0
    /\ failed = None
    /\ error = None
    /\ th = << >>
    /\ lock = 0
    /\ NoProvider
    /\ NoPlanner

\* get(k): _load, then _mem.get
LoadGet ==
    /\ ops < MaxOps
    /\ ops' = ops + 1
    /\ \E k \in LoadKeys :
          IF _load_raises(cache)
          THEN /\ \E n \in Readable(cache.file) :
                     cache' = [cache EXCEPT !.mem = LoadLines(cache.mem, SubSeq(cache.file, 1, n))]
               /\ error' = Some("UnicodeDecodeError")
          ELSE /\ cache' = _load(cache)
               /\ error' = None
    /\ UNCHANGED << fresh, lastPut, failed, resolverVars, threadVars, providerVars, plannerVars >>

\* has_hits(k): get(k), then cached.get("has_hits", False)
LoadHasHits ==
    /\ ops < MaxOps
    /\ ops' = ops + 1
    /\ \E k \in LoadKeys :
          IF _load_raises(cache)
          THEN /\ \E n \in Readable(cache.file) :
                     cache' = [cache EXCEPT !.mem = LoadLines(cache.mem, SubSeq(cache.file, 1, n))]
               /\ error' = Some("UnicodeDecodeError")
          ELSE /\ cache' = _load(cache)
               /\ error' = IF get(cache, k) # None /\ ~IsDict(get(cache, k)[1])
                           THEN Some("AttributeError")
                           ELSE None
    /\ UNCHANGED << fresh, lastPut, failed, resolverVars, threadVars, providerVars, plannerVars >>

NextLoad ==
    \/ LoadGet
    \/ LoadHasHits

SpecLoad == InitLoad /\ [][NextLoad]_vars

\* ------------------------------------------------------------------------
\* providers/epo.py: the access token.  Threads run _search on one
\* EpoProvider; time.time() is clock, in seconds.  A caller is
\*   pc: "idle"   between searches
\*       "token"  _get_token: the test of self._token and self._token_exp
\*       "auth"   _get_token: requests.post(OPS_AUTH_URL) under way
\*       "get"    _search: session.get with the token it was given
\* wire lists the token requests in the order they were sent; a token is
\* named by the index of the request that obtained it.
\* ------------------------------------------------------------------------

TOKEN_GRACE == 60

\* "expires_in" of the token response
ExpiresIns == { 120, 180 }

InitToken ==
    /\ NoResolver
    /\ cache = NewCache(<< >>)
    /\ fresh = None
    /\ lastPut = << >>
    /\ ops = 0
    /\ failed = None
    /\ error = None
    /\ th = << >>
    /\ lock = 0
    /\ NoPlanner
    /\ NoRetry
    /\ clock = 0
    /\ _min_interval = 0
    /\ _last_ts = 0
    /\ callers = [t \in Callers |-> [pc |-> "idle", token |-> None, left |-> MaxSearches]]
    /\ wire = << >>
    /\ auth = [token |-> None, token_exp |-> 0]
    /\ NoRegistry
    /\ NoTools

tokenFrame ==
    UNCHANGED << cache, resolverVars, directVars, threadVars, plannerVars, retryVars,
                 registryVars, toolVars, _min_interval, _last_ts >>

\* time passes, a minute at a time
TokenTick ==
    /\ clock < MaxTokenTime
    /\ clock' = clock + 60
    /\ UNCHANGED << callers, wire, auth >>
    /\ tokenFrame

\* a thread calls _search and reaches _get_token
Search(t) ==
    /\ callers[t].pc = "idle"
    /\ callers[t].left > 0
    /\ callers' = [callers EXCEPT ![t].pc = "token", ![t].left = @ - 1, ![t].token = None]
    /\ UNCHANGED << clock, wire, auth >>
    /\ tokenFrame

\* "if self._token and (time.time() + 60) < self._token_exp: return";
\* otherwise the token request is sent
GetToken(t) ==
    /\ callers[t].pc = "token"
    /\ IF auth.token # None /\ clock + TOKEN_GRACE < auth.token_exp
       THEN /\ callers' = [callers EXCEPT ![t].pc = "get", ![t].token = auth.token]
            /\ wire' = wire
       ELSE /\ callers' = [callers EXCEPT ![t].pc = "auth"]
            /\ wire' = Append(wire, [by |-> t, start |-> clock, done |-> None])
    /\ UNCHANGED << clock, auth >>
    /\ tokenFrame

\* the token request is answered: _token and _token_exp are assigned
TokenGranted(t) ==
    /\ callers[t].pc = "auth"
    /\ \E e \in ExpiresIns :
          auth' = [token |-> Some(Pending(t)), token_exp |-> clock + e]
    /\ wire' = [wire EXCEPT ![Pending(t)].done = Some(clock)]
    /\ callers' = [callers EXCEPT ![t].pc = "get", ![t].token = Some(Pending(t))]
    /\ UNCHANGED clock
    /\ tokenFrame

\* the token request fails: raise_for_status leaves _search
TokenRefused(t) ==
    /\ callers[t].pc = "auth"
    /\ wire' = [wire EXCEPT ![Pending(t)].done = Some(clock)]
    /\ callers' = [callers EXCEPT ![t].pc = "idle"]
    /\ UNCHANGED << clock, auth >>
    /\ tokenFrame

\* session.get returns
SearchDone(t) ==
    /\ callers[t].pc = "get"
    /\ callers' = [callers EXCEPT ![t].pc = "idle"]
    /\ UNCHANGED << clock, wire, auth >>
    /\ tokenFrame

NextToken ==
    \/ TokenTick
    \/ \E t \in Callers :
          \/ Search(t)
          \/ GetToken(t)
          \/ TokenGranted(t)
          \/ TokenRefused(t)
          \/ SearchDone(t)

SpecToken == InitToken /\ [][NextToken]_vars

\* ------------------------------------------------------------------------
\* gleif/match.py and common/orgnorm: the matcher of registry records.
\* A name is the sequence of its words (runs of white space separate them);
\* "U+4E09" stands for a word written without any ASCII letter.
\* ------------------------------------------------------------------------

\* norm, word by word: lower case, the dot at the end of a word dropped
NormWord(w) ==
    CASE w \in { "Acme", "ACME" } -> "acme"
      [] w = "Inc." -> "inc"
      [] w = "Corp" -> "corp"
      [] w = "The" -> "the"
      [] w = "Foo" -> "foo"
      [] w = "ADR" -> "adr"
      [] w = "N.V." -> "n.v"
      [] w = "NV" -> "nv"
      [] w = "Depositary" -> "depositary"
      [] OTHER -> w

norm(s) == [i \in 1..Len(s) |-> NormWord(s[i])]

\* ADR_SUFFIX_RE: the words of a depositary-receipt tail
ADR_SUFFIX_WORDS == { "adr", "adrhedged", "ads", "gdr" }

RECURSIVE DropAdrTail(_)
DropAdrTail(s) ==
    IF s # << >> /\ s[Len(s)] \in ADR_SUFFIX_WORDS
    THEN DropAdrTail(SubSeq(s, 1, Len(s) - 1))
    ELSE s

strip_adr_suffix(s) == DropAdrTail(norm(s))

cmp_norm(s) == strip_adr_suffix(s)

\* SUFFIX_RE and STOPWORDS, on the words at hand
SUFFIX_WORDS == { "inc", "corp", "n.v", "nv" }

STOPWORDS == { "the" }

stem(s) == SelectSeq(norm(s), LAMBDA w : w \notin SUFFIX_WORDS /\ w \notin STOPWORDS)

cmp_stem(s) == stem(strip_adr_suffix(s))

\* ADR_PAT, searched in the lower-cased name
is_adr_like_name(s) == \E i \in 1..Len(s) : s[i] \in { "ADR", "Depositary" }

\* ASCII_PAT
name_has_ascii(s) == \E i \in 1..Len(s) : s[i] # "U+4E09"

PRIORITY ==
    [ exact_norm_legal |-> 4, exact_norm_other |-> 3, stem_eq_legal |-> 3,
      token_set_eq_legal |-> 2, token_set_eq_other |-> 1 ]

\* x.replace(".", "")
UndotWord(w) == IF w = "n.v" THEN "nv" ELSE w

undot(s) == [i \in 1..Len(s) |-> UndotWord(s[i])]

toks(s) == { cmp_stem(s)[i] : i \in 1..Len(cmp_stem(s)) }

ExactNorm(name, target_name) ==
    \/ cmp_norm(name) = cmp_norm(target_name) /\ cmp_norm(name) # << >>
    \/ undot(cmp_norm(name)) = undot(cmp_norm(target_name)) /\ undot(cmp_norm(name)) # << >>

rule_for(target_name, legal, other_names) ==
    IF ExactNorm(legal, target_name) THEN "exact_norm_legal"
    ELSE IF \E i \in 1..Len(other_names) : ExactNorm(other_names[i], target_name)
    THEN "exact_norm_other"
    ELSE IF cmp_stem(legal) = cmp_stem(target_name) /\ cmp_stem(target_name) # << >>
    THEN "stem_eq_legal"
    ELSE IF toks(target_name) # {} /\ toks(legal) = toks(target_name)
    THEN "token_set_eq_legal"
    ELSE IF \E i \in 1..Len(other_names) :
               toks(target_name) # {} /\ toks(other_names[i]) = toks(target_name)
    THEN "token_set_eq_other"
    ELSE ""

\* [legal] + others, the empty names left out
names_for_checks(d) == SelectSeq(<< d.legalName >> \o d.otherNames, LAMBDA n : n # << >>)

adr_like(d) == \E i \in 1..Len(names_for_checks(d)) : is_adr_like_name(names_for_checks(d)[i])

any_adr(rows) == \E i \in 1..Len(rows) : adr_like(rows[i])

any_ascii(rows) ==
    \E i \in 1..Len(rows) :
       \E j \in 1..Len(names_for_checks(rows[i])) : name_has_ascii(names_for_checks(rows[i])[j])

\* the tuple appended to raw_cands for a record
Cand(d, target_name) ==
    [ rule |-> rule_for(target_name, d.legalName, d.otherNames),
      lei |-> d.id, legal |-> d.legalName, adr |-> adr_like(d) ]

raw_cands(rows, target_name) ==
    SelectSeq([i \in 1..Len(rows) |-> Cand(rows[i], target_name)],
              LAMBDA c : c.rule # "" /\ c.lei # "")

\* PRIORITY.get(rule, 0)
PriorityOf(rule) == IF rule \in DOMAIN PRIORITY THEN PRIORITY[rule] ELSE 0

top_score(cands) ==
    CHOOSE p \in { PriorityOf(cands[i].rule) : i \in 1..Len(cands) } :
       \A i \in 1..Len(cands) : PriorityOf(cands[i].rule) <= p

top_d(cands) ==
    With(SelectSeq(cands, LAMBDA c : PriorityOf(c.rule) = top_score(cands)),
         LAMBDA top : [i \in 1..Len(top) |->
                          [lei |-> top[i].lei, legal |-> top[i].legal, rule |-> top[i].rule]])

\* pick_top_matches from "if not cands" on
Ranked(rows, cands) ==
    IF cands = << >>
    THEN IF rows # << >> /\ any_adr(rows)
         THEN [matches |-> << >>, status |-> "adr_only_candidates", top_rule |-> ""]
         ELSE IF rows # << >> /\ ~any_ascii(rows)
         THEN [matches |-> << >>, status |-> "non_latin_only", top_rule |-> ""]
         ELSE [matches |-> << >>, status |-> "no_match", top_rule |-> ""]
    ELSE [ matches |-> top_d(cands),
           status |-> IF Len(top_d(cands)) = 1 THEN "ok" ELSE "ambiguous_multi",
           top_rule |-> top_d(cands)[1].rule ]

\* the records with depositary-receipt markers are kept among the candidates
pick_top_matches_keep_adr(rows, target_name) ==
    Ranked(rows, raw_cands(rows, target_name))

pick_top_matches(rows, target_name) ==
    Ranked(rows, SelectSeq(raw_cands(rows, target_name), LAMBDA c : ~c.adr))

\* registry records and targets the matcher is run on
Record(id, legalName, otherNames) ==
    [id |-> id, legalName |-> legalName, otherNames |-> otherNames]

Records ==
    { Record("L1", << "Acme", "Inc." >>, << >>),
      Record("L2", << "Foo" >>, << << "ACME", "Inc." >> >>),
      Record("L3", << "Acme", "Corp" >>, << >>),
      Record("L4", << "Acme", "Inc.", "ADR" >>, << >>),
      Record("L5", << "Foo" >>, << << "The", "Acme" >> >>),
      Record("L6", << "Acme", "The", "Acme" >>, << >>),
      Record("", << "Acme", "Inc." >>, << >>),
      Record("L8", << "U+4E09" >>, << >>),
      Record("L9", << "Foo" >>, << >>),
      Record("L10", << "Foo", "Depositary" >>, << >>),
      Record("L11", << "Acme", "NV" >>, << >>) }

Targets == { << "ACME", "Inc." >>, << "Acme", "N.V." >> }

RowLists == UNION { [1..n -> Records] : n \in 0..MaxRows }

InitMatch ==
    /\ NoResolver
    /\ cache = NewCache(<< >>)
    /\ fresh = None
    /\ lastPut = << >>
    /\ ops = 0
    /\ failed = None
    /\ error = None
    /\ th = << >>
    /\ lock = 0
    /\ NoPlanner
    /\ NoPacing
    /\ NoRetry
    /\ NoToken
    /\ NoTools
    /\ gleifRows \in RowLists
    /\ gleifTarget \in Targets
    /\ picked = None

PickTopMatches ==
    /\ picked = None
    /\ picked' = Some(pick_top_matches(gleifRows, gleifTarget))
    /\ UNCHANGED << gleifRows, gleifTarget >>
    /\ UNCHANGED << cache, resolverVars, directVars, threadVars, plannerVars,
                    paceVars, retryVars, tokenVars, toolVars >>

NextMatch == PickTopMatches

SpecMatch == InitMatch /\ [][NextMatch]_vars

\* ------------------------------------------------------------------------
\* gleif/search.py and gleif/http.py: gleif_search_union.  The state of a
\* call is
\*   variants, country_hints   what expand_query_variants and
\*                             country_hints_from_name returned for the name
\*   queries                   the parameter dicts, in the order they are sent
\*   pos                       index of the next query
\*   seen, out                 the identifiers met and the records kept
\*   last                      the answer to the latest query (None: none yet)
\*   outcome                   "running" | "returned" | "raised"
\* ------------------------------------------------------------------------

\* str(page_size), page_size left at its default
PAGE_SIZE == "200"

SearchVariantLists == { << "Acme" >>, << "Acme", "Acme AB" >> }

CountryHintLists == { << >>, << "SE" >>, << "SE", "FI", "DE", "NO" >> }

\* country_hints[:3]
FirstThree(s) == SubSeq(s, 1, IF Len(s) < 3 THEN Len(s) ELSE 3)

LegalNameQuery(v) == ("filter[entity.legalName]" :> v) @@ ("page[size]" :> PAGE_SIZE)

CountryQuery(v, cc) ==
    ("filter[entity.legalName]" :> v) @@ ("filter[entity.legalAddress.country]" :> cc)
       @@ ("page[size]" :> PAGE_SIZE)

FulltextQuery(v) == ("filter[fulltext]" :> v) @@ ("page[size]" :> PAGE_SIZE)

RECURSIVE Flatten(_)
Flatten(ss) == IF ss = << >> THEN << >> ELSE Head(ss) \o Flatten(Tail(ss))

\* the full-text queries carry the first country hint too
queries_fulltext_with_country(vs, country_hints) ==
    [i \in 1..Len(vs) |-> LegalNameQuery(vs[i])]
       \o [i \in 1..Len(vs) |->
             IF country_hints = << >> THEN FulltextQuery(vs[i])
             ELSE FulltextQuery(vs[i]) @@ ("filter[entity.legalAddress.country]" :> country_hints[1])]

\* the list "queries": A) legal name, B) legal name and country, C) full text
queries(vs, country_hints) ==
    [i \in 1..Len(vs) |-> LegalNameQuery(vs[i])]
       \o Flatten([i \in 1..Len(vs) |->
                     [k \in 1..Len(FirstThree(country_hints)) |->
                         CountryQuery(vs[i], FirstThree(country_hints)[k])]])
       \o [i \in 1..Len(vs) |-> FulltextQuery(vs[i])]

\* the registry's records: "id", attributes.lei, and a tag telling apart two
\* records of one identifier
GleifRecord(id, lei, tag) == [id |-> id, lei |-> lei, tag |-> tag]

GleifRecords ==
    { GleifRecord("A", "", 1), GleifRecord("A", "", 2), GleifRecord("B", "", 1),
      GleifRecord("", "A", 3), GleifRecord("", "", 4) }

DataLists == UNION { [1..n -> GleifRecords] : n \in 0..MaxData }

\* what session.get can come to: a status of 400 or more, a body that is not
\* JSON, an exception of the transport, a JSON array, a JSON object with "data"
Answers ==
    { [kind |-> k, data |-> << >>] : k \in { "http_error", "not_json", "exception", "json_array" } }
       \cup { [kind |-> "json", data |-> d] : d \in DataLists }

\* safe_get: the first component of what it returns (None for None)
safe_get(answer) ==
    IF answer.kind \in { "http_error", "not_json", "exception" } THEN None
    ELSE Some(answer)

\* d.get("id") or d.get("attributes").get("lei")
LeiOf(d) == IF d.id # "" THEN d.id ELSE d.lei

\* every record with an identifier is kept, met before or not
RECURSIVE Collect_no_dedupe(_, _)
Collect_no_dedupe(data, acc) ==
    IF data = << >> THEN acc
    ELSE Collect_no_dedupe(Tail(data),
            IF LeiOf(Head(data)) = "" THEN acc
            ELSE [seen |-> acc.seen \cup { LeiOf(Head(data)) },
                  out |-> Append(acc.out, Head(data))])

\* "for d in data": acc is [seen, out]
RECURSIVE Collect(_, _)
Collect(data, acc) ==
    IF data = << >> THEN acc
    ELSE Collect(Tail(data),
            IF LeiOf(Head(data)) = "" \/ LeiOf(Head(data)) \in acc.seen THEN acc
            ELSE [seen |-> acc.seen \cup { LeiOf(Head(data)) },
                  out |-> Append(acc.out, Head(data))])

InitSearch ==
    /\ NoResolver
    /\ cache = NewCache(<< >>)
    /\ fresh = None
    /\ lastPut = << >>
    /\ ops = 0
    /\ failed = None
    /\ error = None
    /\ th = << >>
    /\ lock = 0
    /\ NoPlanner
    /\ NoPacing
    /\ NoRetry
    /\ NoToken
    /\ NoRegistry
    /\ NoNorm
    /\ NoCodebook
    /\ gleif = None

searchFrame ==
    UNCHANGED << cache, resolverVars, directVars, threadVars, plannerVars,
                 paceVars, retryVars, tokenVars, registryVars, normVars, codebookVars >>

\* gleif_search_union is called: the queries are listed
GleifSearchUnion ==
    /\ gleif = None
    /\ \E vs \in SearchVariantLists, country_hints \in CountryHintLists :
          gleif' = Some([ variants |-> vs, country_hints |-> country_hints,
                          queries |-> queries(vs, country_hints), pos |-> 1,
                          seen |-> {}, out |-> << >>, last |-> None,
                          outcome |-> "running" ])
    /\ searchFrame

\* one turn of "for q in queries"
SafeGet ==
    /\ gleif # None
    /\ gleif[1].outcome = "running"
    /\ gleif[1].pos <= Len(gleif[1].queries)
    /\ \E answer \in Answers :
          gleif' =
             IF safe_get(answer) = None
             THEN Some([gleif[1] EXCEPT !.pos = @ + 1, !.last = Some(answer)])
             ELSE IF answer.kind = "json_array"
             THEN Some([gleif[1] EXCEPT !.last = Some(answer), !.outcome = "raised"])
             ELSE With(Collect(answer.data, [seen |-> gleif[1].seen, out |-> gleif[1].out]),
                       LAMBDA acc : Some([gleif[1] EXCEPT !.pos = @ + 1, !.last = Some(answer),
                                                         !.seen = acc.seen, !.out = acc.out]))
    /\ searchFrame

\* "return out"
SearchReturn ==
    /\ gleif # None
    /\ gleif[1].outcome = "running"
    /\ gleif[1].pos > Len(gleif[1].queries)
    /\ gleif' = Some([gleif[1] EXCEPT !.outcome = "returned"])
    /\ searchFrame

NextSearch ==
    \/ GleifSearchUnion
    \/ SafeGet
    \/ SearchReturn

SpecSearch == InitSearch /\ [][NextSearch]_vars

\* ------------------------------------------------------------------------
\* common/orgnorm/core.py: norm, character by character.  A string is the
\* sequence of its characters.  InChars has an upper-case letter, an
\* accented letter, the dot, the slash, the blank, a character norm drops
\* and the ampersand; no character reference can be spelled with it, so
\* html.unescape leaves these strings as they are.
\* ------------------------------------------------------------------------
InChars == { "N", "É", ".", "/", " ", ",", "&" }

AsciiLetters == { "N", "E", "n", "e", "a", "d" }

\* \w: letters, among them the accented one
IsWordChar(c) == c \in AsciiLetters \cup { "É", "é" }

\* Python's $ and \s on these characters
AtEndOrBlank(cs, i) == i > Len(cs) \/ cs[i] = " "

\* the characters of cs at the indices that Keep accepts
KeepAt(cs, Keep(_, _)) ==
    LET F[i \in 0..Len(cs)] ==
           IF i = 0 THEN << >>
           ELSE IF Keep(cs, i) THEN Append(F[i - 1], cs[i]) ELSE F[i - 1]
    IN F[Len(cs)]

\* unicodedata.normalize("NFKD") without the combining marks
_strip_accents(cs) ==
    [i \in 1..Len(cs) |-> CASE cs[i] = "É" -> "E" [] cs[i] = "é" -> "e" [] OTHER -> cs[i]]

\* re.sub(r"&", " and ", s)
RECURSIVE _ampersand_to_and(_)
_ampersand_to_and(cs) ==
    IF cs = << >> THEN << >>
    ELSE (IF Head(cs) = "&" THEN << " ", "a", "n", "d", " " >> ELSE << Head(cs) >>)
            \o _ampersand_to_and(Tail(cs))

\* str.lower()
LowerCase(cs) ==
    [i \in 1..Len(cs) |-> CASE cs[i] = "N" -> "n" [] cs[i] = "E" -> "e"
                            [] cs[i] = "É" -> "é" [] OTHER -> cs[i]]

\* TRAILING_SLASH_TAG_RE.sub("", x): "/the" or "/" and two letters, at the end
DropTrailingSlashTag(cs) ==
    IF /\ Len(cs) >= 3
       /\ cs[Len(cs) - 2] = "/"
       /\ cs[Len(cs) - 1] \in AsciiLetters
       /\ cs[Len(cs)] \in AsciiLetters
    THEN SubSeq(cs, 1, Len(cs) - 3)
    ELSE IF Len(cs) >= 4 /\ SubSeq(cs, Len(cs) - 3, Len(cs)) = << "/", "t", "h", "e" >>
    THEN SubSeq(cs, 1, Len(cs) - 4)
    ELSE cs

\* re.sub(r"[^\w&\-/\. ]+", "", x)
DropNoise(cs) ==
    KeepAt(cs, LAMBDA x, i : IsWordChar(x[i]) \/ x[i] \in { "&", "-", "/", ".", " " })

\* re.sub(r"\b([a-z])\.(?=\s|$)", r"\1", x)
CollapseLetterDots(cs) ==
    KeepAt(cs, LAMBDA x, i :
                  ~ /\ x[i] = "."
                    /\ i > 1
                    /\ x[i - 1] \in { "n", "e", "a", "d" }
                    /\ (i = 2 \/ ~IsWordChar(x[i - 2]))
                    /\ AtEndOrBlank(x, i + 1))

\* re.sub(r"\.(?=\s|$)", "", x)
DropTokenDots(cs) == KeepAt(cs, LAMBDA x, i : ~(x[i] = "." /\ AtEndOrBlank(x, i + 1)))

\* SPACE_RE.sub(" ", x).strip()
CollapseSpaces(cs) == Strip(KeepAt(cs, LAMBDA x, i : ~(x[i] = " " /\ i > 1 /\ x[i - 1] = " ")))

\* norm
NormChars(cs) ==
    CollapseSpaces(DropTokenDots(CollapseLetterDots(DropNoise(DropTrailingSlashTag(
       LowerCase(_ampersand_to_and(_strip_accents(Strip(cs)))))))))

NormInputs == UNION { [1..n -> InChars] : n \in 0..MaxLen }

InitNorm ==
    /\ NoResolver
    /\ cache = NewCache(<< >>)
    /\ fresh = None
    /\ lastPut = << >>
    /\ ops = 0
    /\ failed = None
    /\ error = None
    /\ th = << >>
    /\ lock = 0
    /\ NoPlanner
    /\ NoPacing
    /\ NoRetry
    /\ NoToken
    /\ NoRegistry
    /\ NoSearch
    /\ NoCodebook
    /\ normed \in { [s |-> cs, once |-> None, twice |-> None] : cs \in NormInputs }

normFrame ==
    UNCHANGED << cache, resolverVars, directVars, threadVars, plannerVars,
                 paceVars, retryVars, tokenVars, registryVars, searchVars, codebookVars >>

\* norm(s)
Norm ==
    /\ normed.once = None
    /\ normed' = [normed EXCEPT !.once = Some(NormChars(normed.s))]
    /\ normFrame

\* norm of what norm returned
NormAgain ==
    /\ normed.once # None
    /\ normed.twice = None
    /\ normed' = [normed EXCEPT !.twice = Some(NormChars(normed.once[1]))]
    /\ normFrame

NextNorm ==
    \/ Norm
    \/ NormAgain

SpecNorm == InitNorm /\ [][NextNorm]_vars

\* ------------------------------------------------------------------------
\* operations/cpc_codebook.py: get_codebook and its cache files.  A code is
\* the sequence of its characters.  book is
\*   files   per level, the content of CACHE_DIR/codebook_<level>.json
\*           (None: the file does not exist)
\*   last    [level, roots, codes, raised] of the latest get_codebook
\*   calls   number of get_codebook calls so far
\* ------------------------------------------------------------------------
Levels == { "section", "class", "subclass", "group" }

\* list("ABCDEFGHY")
SECTIONS ==
    << << "A" >>, << "B" >>, << "C" >>, << "D" >>, << "E" >>, << "F" >>, << "G" >>,
       << "H" >>, << "Y" >> >>

\* the ids in the rows PatentsView answers with, as it spells them
PvClasses == << << "H", "1" >>, << "Y", "2" >> >>

PvSubclasses == << << "H", "1", "L" >>, << "Y", "2", "E" >> >>

PvGroups(subclass) ==
    IF subclass = << "H", "1", "L" >> THEN << << "H", "1", "L", "7" >> >>
    ELSE IF subclass = << "Y", "2", "E" >> THEN << << "y", "2", "e", "5" >>, << "Y", "2", "E", "5" >> >>
    ELSE << >>

\* the roots arguments tried; None is roots=None
RootLists ==
    { None, Some(<< << "H" >> >>), Some(<< << "y", "2" >>, << " " >> >>),
      Some(<< << "H", "1", "L", "7" >> >>) }

\* what goes wrong with the provider during a call: nothing, a class or
\* subclass request raises (raise_for_status), a group request raises
Failures == { "none", "first", "groups" }

\* str.upper() and str.replace(" ", "")
UpperCode(cs) ==
    [i \in 1..Len(cs) |-> CASE cs[i] = "h" -> "H" [] cs[i] = "y" -> "Y"
                            [] cs[i] = "e" -> "E" [] cs[i] = "l" -> "L" [] OTHER -> cs[i]]

NoBlanks(cs) == SelectSeq(cs, LAMBDA ch : ch # " ")

startswith(c, r) == Len(r) <= Len(c) /\ SubSeq(c, 1, Len(r)) = r

\* sorted(): the codes that can occur, in the order of str
CodeOrder ==
    << << "A" >>, << "B" >>, << "C" >>, << "D" >>, << "E" >>, << "F" >>, << "G" >>,
       << "H" >>, << "H", "1" >>, << "H", "1", "L" >>, << "H", "1", "L", "7" >>,
       << "Y" >>, << "Y", "2" >>, << "Y", "2", "E" >>, << "Y", "2", "E", "5" >> >>

Sorted(S) == SelectSeq(CodeOrder, LAMBDA c : c \in S)

\* the ids of a page, stripped and upper-cased, each kept once
RECURSIVE UniqueIds(_, _)
UniqueIds(ids, acc) ==
    IF ids = << >> THEN acc
    ELSE UniqueIds(Tail(ids),
            With(UpperCode(Strip(Head(ids))),
                 LAMBDA v : IF v = << >> \/ (\E i \in 1..Len(acc) : acc[i] = v)
                            THEN acc ELSE Append(acc, v)))

\* _pv_collect_ids: one short page
_pv_collect_ids(level) ==
    UniqueIds(IF level = "class" THEN PvClasses ELSE PvSubclasses, << >>)

\* roots_u, and the filter "any(c.startswith(r) for r in roots_u)"
roots_u(roots) == SelectSeq([i \in 1..Len(roots) |-> UpperCode(Strip(roots[i]))],
                            LAMBDA r : r # << >>)

FilterByRoots(codes, roots) ==
    IF roots = None \/ roots[1] = << >> THEN codes
    ELSE SelectSeq(codes, LAMBDA c :
            \E i \in 1..Len(roots_u(roots[1])) : startswith(c, roots_u(roots[1])[i]))

\* the set comprehension and sorted() of get_codebook
Normalized(raw) == Sorted({ NoBlanks(UpperCode(Strip(raw[i]))) : i \in 1..Len(raw) } \ { << >> })

\* get_codebook("subclass"), called by _collect_groups_via_subclasses
SubclassCodebook(files, fails) ==
    IF files["subclass"] # None
    THEN [files |-> files, codes |-> files["subclass"][1], raised |-> FALSE]
    ELSE IF fails = "first"
    THEN [files |-> files, codes |-> << >>, raised |-> TRUE]
    ELSE With(Normalized(_pv_collect_ids("subclass")),
              LAMBDA codes : [files |-> [files EXCEPT !["subclass"] = Some(codes)],
                              codes |-> codes, raised |-> FALSE])

RECURSIVE GroupSweep(_, _)
GroupSweep(subclass_codes, acc) ==
    IF subclass_codes = << >> THEN acc
    ELSE GroupSweep(Tail(subclass_codes), UniqueIds(PvGroups(Head(subclass_codes)), acc))

\* the subclasses are narrowed by the roots before the sweep
_collect_groups_via_subclasses(files, roots, fails) ==
    With(SubclassCodebook(files, fails),
         LAMBDA sub :
            IF sub.raised THEN [files |-> sub.files, raw |-> << >>, raised |-> TRUE]
            ELSE With(FilterByRoots(sub.codes, roots),
                      LAMBDA subclass_codes :
                         IF fails = "groups" /\ subclass_codes # << >>
                         THEN [files |-> sub.files, raw |-> << >>, raised |-> TRUE]
                         ELSE [files |-> sub.files, raw |-> GroupSweep(subclass_codes, << >>),
                               raised |-> FALSE]))

_fetch_codes(files, level, roots, fails) ==
    IF level = "section" THEN [files |-> files, raw |-> SECTIONS, raised |-> FALSE]
    ELSE IF level = "group" THEN _collect_groups_via_subclasses(files, roots, fails)
    ELSE IF fails = "first" THEN [files |-> files, raw |-> << >>, raised |-> TRUE]
    ELSE [files |-> files, raw |-> _pv_collect_ids(level), raised |-> FALSE]

\* get_codebook(level, roots=roots): the files afterwards and what it returns
get_codebook(files, level, roots, fails) ==
    IF files[level] # None
    THEN [files |-> files, codes |-> FilterByRoots(files[level][1], roots), raised |-> FALSE]
    ELSE With(_fetch_codes(files, level, roots, fails),
              LAMBDA f :
                 IF f.raised THEN [files |-> f.files, codes |-> << >>, raised |-> TRUE]
                 ELSE [files |-> [f.files EXCEPT ![level] = Some(Normalized(f.raw))],
                       codes |-> FilterByRoots(Normalized(f.raw), roots),
                       raised |-> FALSE])

InitCodebook ==
    /\ NoResolver
    /\ cache = NewCache(<< >>)
    /\ fresh = None
    /\ lastPut = << >>
    /\ ops = 0
    /\ failed = None
    /\ error = None
    /\ th = << >>
    /\ lock = 0
    /\ NoPlanner
    /\ NoPacing
    /\ NoRetry
    /\ NoToken
    /\ NoRegistry
    /\ NoSearch
    /\ NoNorm
    /\ book = [files |-> [l \in Levels |-> None], last |-> None, calls |-> 0]

GetCodebook ==
    /\ book.calls < MaxBookCalls
    /\ \E level \in Levels, roots \in RootLists, fails \in Failures :
          \E r \in { get_codebook(book.files, level, roots, fails) } :
             book' = [files |-> r.files,
                      last |-> Some([level |-> level, roots |-> roots, codes |-> r.codes,
                                     raised |-> r.raised]),
                      calls |-> book.calls + 1]
    /\ UNCHANGED << cache, resolverVars, directVars, threadVars, plannerVars,
                    paceVars, retryVars, tokenVars, registryVars, searchVars, normVars >>

NextCodebook == GetCodebook

SpecCodebook == InitCodebook /\ [][NextCodebook]_vars

\* ------------------------------------------------------------------------
\* Helpers of the properties
\* ------------------------------------------------------------------------

Done == status = "done"

IsEq(e) == e.type = "eq"

IsDisc(e) == e.type = "disc"

Pair(e) == << e.name, e.bucket >>

IsPrefix(s, t) == Len(s) <= Len(t) /\ \A i \in 1..Len(s) : s[i] = t[i]

\* the candidates of the buckets of bl, bucket by bucket, each bucket in
\* candidate-list order
RECURSIVE InBucketOrder(_, _)
InBucketOrder(cands, bl) ==
    IF bl = << >> THEN << >>
    ELSE SelectSeq(cands, LAMBDA c : c[2] = Head(bl)) \o InBucketOrder(cands, Tail(bl))

\* the distinct elements of a list in order of first occurrence
RECURSIVE Distinct(_)
Distinct(l) ==
    IF l = << >> THEN << >>
    ELSE LET d == Distinct(SubSeq(l, 1, Len(l) - 1))
             x == l[Len(l)]
         IN IF \E i \in 1..Len(d) : d[i] = x THEN d ELSE Append(d, x)

RECURSIVE MapPair(_)
MapPair(es) == IF es = << >> THEN << >> ELSE << Pair(Head(es)) >> \o MapPair(Tail(es))

DiscPairs == MapPair(SelectSeq(events, IsDisc))

\* ------------------------------------------------------------------------
\* C1: after one complete consumption of resolve() has populated the cache,
\* a second complete consumption with the same arguments and the same cache
\* makes no provider call
\* ------------------------------------------------------------------------
C1_SecondRunMakesNoProviderCall ==
    (run = 2 /\ complete) => calls = << >>

\* ------------------------------------------------------------------------
\* C2: within one resolution the exact-count probe of a harvested
\* organization makes no count_eq call for a name count_eq was already
\* called for earlier in that resolution
\* ------------------------------------------------------------------------
C2_HarvestedNameNotCountedTwice ==
    \A j \in 1..Len(calls) :
        (calls[j].op = "count_eq" /\ calls[j].stage = "harv") =>
            \A i \in 1..(j - 1) :
                ~(calls[i].op = "count_eq" /\ calls[i].name = calls[j].name)

\* ------------------------------------------------------------------------
\* C3: resolve is pull-driven: before the first next() there is no provider
\* call and no cache write; each next() makes at most one provider call and
\* nothing but a next() makes one; with an empty cache the first event of
\* eq_then_discovery costs exactly one count_eq call, for the first orig
\* candidate, and its total is the provider's count
\* ------------------------------------------------------------------------
FirstOrig == SelectSeq(candidates, LAMBDA c : c[2] = "orig")[1][1]

HasOrig == \E i \in 1..Len(candidates) : candidates[i][2] = "orig"

C3_PullDriven ==
    /\ [](requested = 0 => (calls = << >> /\ cache.file = file0))
    /\ [][run' = run =>
            /\ Len(calls') - Len(calls) <= requested' - requested
            /\ requested' - requested <= 1
            /\ Len(events') - Len(events) <= requested' - requested
            /\ (cache'.file # cache.file => requested' = requested + 1)]_vars
    /\ []((/\ strategy = "eq_then_discovery"
           /\ file0 = << >>
           /\ HasOrig
           /\ requested = 1
           /\ status \in { "suspended", "closed" })
          => /\ Len(calls) = 1
             /\ calls[1].op = "count_eq"
             /\ calls[1].name = FirstOrig
             /\ events = << EqAttemptResult(FirstOrig, "orig", calls[1].total) >>)

C3_Witness ==
    /\ strategy = "eq_then_discovery"
    /\ file0 = << >>
    /\ status = "closed"
    /\ requested = 1
    /\ Len(events) = 1
    /\ events[1].total = 772
    /\ Len(calls) = 1

\* ------------------------------------------------------------------------
\* C4: eq_then_discovery yields first one EqAttemptResult per candidate of a
\* seed bucket, by bucket [orig, gleif_legal, gleif_other, gleif_sub] and
\* candidate-list order, and only then the DiscoveryResults, by bucket
\* [orig, gleif_legal, gleif_other, expand_legal, expand_other, expand_orig]
\* and candidate-list order; never one for gleif_sub or expand_sub
\* ------------------------------------------------------------------------
C4_SeedOrder ==
    InBucketOrder(candidates, << "orig", "gleif_legal", "gleif_other", "gleif_sub" >>)

C4_DiscOrder ==
    InBucketOrder(candidates, << "orig", "gleif_legal", "gleif_other",
                                 "expand_legal", "expand_other", "expand_orig" >>)

C5_HarvestedEqFollowDiscovery ==
    \A i \in 1..Len(events) :
        IsDisc(events[i]) =>
            LET D == Distinct(events[i].harvested) IN
            /\ \A j \in 1..Len(D) :
                  (i + j <= Len(events)) =>
                      /\ IsEq(events[i + j])
                      /\ events[i + j].name = D[j]
                      /\ events[i + j].bucket = events[i].bucket
            \* what follows the block is the next discovery or, in
            \* discovery_first_for_seeds, the fallback probe of a candidate
            /\ (i + Len(D) + 1 <= Len(events)) =>
                  LET e == events[i + Len(D) + 1] IN
                  \/ IsDisc(e)
                  \/ /\ strategy = "discovery_first_for_seeds"
                     /\ \E c \in 1..Len(candidates) : candidates[c] = Pair(e)
            /\ Done => i + Len(D) <= Len(events)

C5_Witness ==
    /\ Done
    /\ \E i \in 1..Len(events) :
          /\ IsDisc(events[i])
          /\ events[i].harvested = << "B", "A", "B" >>
          /\ Len(events) >= i + 2


\* ------------------------------------------------------------------------
\* C6: discovery_first_for_seeds, bucket by bucket of [orig, gleif_legal,
\* gleif_other]: after the discovery events and harvested exact-count
\* events of all candidates of the bucket, the candidates without harvest
\* get one EqAttemptResult on the seed itself, the others none; all of it
\* before the next bucket and before the expand_* discoveries.
\* C6_Match reads the fully consumed stream against that order.  hist lists
\* the discoveries of the current bucket as [name, empty]; byName chooses
\* what "without harvest" means: FALSE, the candidate's own discovery
\* harvested nothing; TRUE, the most recent discovery of the candidate's
\* name harvested nothing.
\* ------------------------------------------------------------------------
C6_LastEmpty(hist, name) ==
    LET ks == { k \in 1..Len(hist) : hist[k].name = name }
        last == CHOOSE k \in ks : \A m \in ks : m <= k
    IN hist[last].empty

C6_Pending(hist, byName) ==
    SelectSeq(hist, LAMBDA x : IF byName THEN C6_LastEmpty(hist, x.name) ELSE x.empty)

RECURSIVE C6_Match(_, _, _, _, _, _)
C6_Match(part, bl, i, e, hist, byName) ==
    IF bl = << >>
    THEN IF part = "A"
         THEN C6_Match("B", << "expand_legal", "expand_other", "expand_orig" >>,
                       1, e, << >>, byName)
         ELSE e = Len(events) + 1
    ELSE IF i > Len(candidates)
    THEN IF part = "A"
         THEN LET pend == C6_Pending(hist, byName) IN
              /\ e + Len(pend) - 1 <= Len(events)
              /\ \A k \in 1..Len(pend) :
                    /\ IsEq(events[e + k - 1])
                    /\ Pair(events[e + k - 1]) = << pend[k].name, Head(bl) >>
              /\ C6_Match(part, Tail(bl), 1, e + Len(pend), << >>, byName)
         ELSE C6_Match(part, Tail(bl), 1, e, << >>, byName)
    ELSE IF candidates[i][2] # Head(bl)
    THEN C6_Match(part, bl, i + 1, e, hist, byName)
    ELSE /\ e <= Len(events)
         /\ IsDisc(events[e])
         /\ Pair(events[e]) = candidates[i]
         /\ LET D == Distinct(events[e].harvested) IN
            /\ e + Len(D) <= Len(events)
            /\ \A j \in 1..Len(D) :
                  /\ IsEq(events[e + j])
                  /\ Pair(events[e + j]) = << D[j], Head(bl) >>
            /\ C6_Match(part, bl, i + 1, e + 1 + Len(D),
                        Append(hist, [name |-> candidates[i][1],
                                      empty |-> events[e].harvested = << >>]),
                        byName)

Entries(c) == _load(c).mem

C8_ProviderErrorEndsSequence ==
    /\ [][(KnownStrategy /\ status # "raised" /\ status' = "raised") =>
            /\ Len(calls') = Len(calls) + 1
            /\ calls'[Len(calls')].raised
            /\ events' = events
            /\ cache'.file = cache.file
            /\ Entries(cache') = Entries(cache)]_vars
    /\ [][(calls # << >> /\ calls[Len(calls)].raised /\ run' = run) =>
            /\ status = "raised"
            /\ UNCHANGED << events, calls, cache, status >>]_vars

C8_Witness ==
    /\ status = "raised"
    /\ calls # << >>
    /\ calls[Len(calls)].raised
    /\ Len(events) >= 2
    /\ Len(cache.file) > Len(file0)


\* ------------------------------------------------------------------------
\* C9: after any sequence of put and mark_has_hits calls, a fresh
\* NamePlanCache opened on the same path returns for every key the value
\* of the last put for that key, and None for a key never put
\* ------------------------------------------------------------------------
C9_ReopenReturnsLastPut ==
    fresh # None =>
        \A k \in CacheKeys :
            get(fresh[1], k) = (IF k \in DOMAIN lastPut THEN Some(lastPut[k]) ELSE None)

C9_Witness ==
    /\ fresh # None
    /\ \E i, j \in 1..Len(cache.file) :
          /\ i < j
          /\ cache.file[i].obj.key = cache.file[j].obj.key
          /\ cache.file[i].obj.op = cache.file[j].obj.op
          /\ cache.file[i].obj.provider = cache.file[j].obj.provider
          /\ cache.file[i].obj.val # cache.file[j].obj.val
    /\ \E k \in CacheKeys : k \notin DOMAIN lastPut


\* ------------------------------------------------------------------------
\* C10: operations issued concurrently on one NamePlanCache are serialized
\* by the cache lock: once all of them have finished, the in-memory value
\* of each key is the value in that key's last log record
\* ------------------------------------------------------------------------
LinesOf(file, k) ==
    { i \in 1..Len(file) :
         << file[i].obj.provider, file[i].obj.year, file[i].obj.op, file[i].obj.key >> = k }

LastLine(file, k) == CHOOSE i \in LinesOf(file, k) : \A j \in LinesOf(file, k) : j <= i

C10_MemoryEqualsLastLogRecord ==
    ((\A t \in DOMAIN th : th[t].pc = "idle") /\ cache.loaded) =>
        \A k \in ThreadKeys :
            IF LinesOf(cache.file, k) = {}
            THEN k \notin DOMAIN cache.mem
            ELSE /\ k \in DOMAIN cache.mem
                 /\ cache.mem[k] = cache.file[LastLine(cache.file, k)].obj.val


\* ------------------------------------------------------------------------
\* C11: a value written by put(k, v) is visible to other callers only
\* after its log line was appended: whatever a get returned is the value
\* of a record of that key already in the log file
\* ------------------------------------------------------------------------
C11_VisibleOnlyAfterAppend ==
    \A t \in DOMAIN th :
        th[t].res # None =>
            \E i \in LinesOf(cache.file, th[t].k) :
                cache.file[i].obj.val = th[t].res[1]


\* ------------------------------------------------------------------------
\* C12: when the append inside put fails the error is surfaced, the
\* in-memory map stays equal to what reloading the file gives (get does not
\* return the unwritten value), and the next put also writes the record
\* whose append failed
\* ------------------------------------------------------------------------
C12_FailedAppendLeavesMemoryConsistent ==
    /\ [](cache.loaded => cache.mem = Entries(NewCache(cache.file)))
    /\ [][(failed # None /\ Len(cache'.file) > Len(cache.file)) =>
             \E i \in (Len(cache.file) + 1)..Len(cache'.file) :
                 cache'.file[i] = Dumps(failed[1])]_vars


\* ------------------------------------------------------------------------
\* C13: for every probe the provider answered, the cache afterwards holds
\* an entry for (provider_label, year or 0 when year is None, op, name)
\* whose has_hits is false for a count of 0 or an empty list and true
\* otherwise, and the entry is written before the event is yielded: the
\* step that yields the event is the step that appended the log line
\* ------------------------------------------------------------------------
ProbeKey(call) ==
    CacheKey(provider_label, IF year = None THEN 0 ELSE year[1],
             IF call.op = "count_eq" THEN "eq" ELSE "discover", call.name)

ProbeHit(call) ==
    IF call.op = "count_eq" THEN call.total > 0 ELSE call.harvested # << >>

C13_AnsweredProbeIsCached ==
    [][(Len(calls') = Len(calls) + 1 /\ ~calls'[Len(calls')].raised) =>
          LET call == calls'[Len(calls')]
              k == ProbeKey(call)
              line == cache'.file[Len(cache'.file)]
          IN /\ Len(cache'.file) = Len(cache.file) + 1
             /\ SubSeq(cache'.file, 1, Len(cache.file)) = cache.file
             /\ line.json
             /\ << line.obj.provider, line.obj.year, line.obj.op, line.obj.key >> = k
             /\ line.obj.val.has_hits = ProbeHit(call)
             /\ get(cache', k) # None
             /\ has_hits(cache', k) = ProbeHit(call)
             /\ Len(events') = Len(events) + 1
             /\ events'[Len(events')].name = call.name]_vars

C13_Witness ==
    /\ year = None
    /\ \E i, j \in 1..Len(calls) :
          /\ calls[i].op = "count_eq" /\ ~calls[i].raised /\ calls[i].total = 0
          /\ ~has_hits(cache, ProbeKey(calls[i]))
          /\ get(cache, ProbeKey(calls[i])) # None
          /\ calls[j].op = "discover_prefix" /\ ~calls[j].raised
          /\ calls[j].harvested # << >>
          /\ has_hits(cache, ProbeKey(calls[j]))
    /\ \E i \in 1..Len(calls) :
          calls[i].op = "count_eq" /\ calls[i].total > 0 /\ has_hits(cache, ProbeKey(calls[i]))


\* ------------------------------------------------------------------------
\* C15: when the cache holds has_hits = true for a probe, the resolver
\* makes no provider call for it and yields a placeholder: total 1 for an
\* exact-count key, harvested ["cached_hit"] for a discover key; for an
\* absent key the adapter reports a miss (None)
\* ------------------------------------------------------------------------
YearKey == IF year = None THEN 0 ELSE year[1]

C15_CachedHitUsesPlaceholder ==
    /\ [][(Len(events') = Len(events) + 1) =>
             LET e == events'[Len(events')]
                 k == CacheKey(provider_label, YearKey,
                               IF IsEq(e) THEN "eq" ELSE "discover", e.name)
             IN IF has_hits(cache, k)
                THEN /\ calls' = calls
                     /\ cache'.file = cache.file
                     /\ IsEq(e) => e.total = 1
                     /\ IsDisc(e) => e.harvested = << "cached_hit" >>
                ELSE Len(calls') = Len(calls) + 1]_vars
    /\ [](\A n \in { candidates[i][1] : i \in 1..Len(candidates) } :
             /\ get(cache, CacheKey(provider_label, YearKey, "eq", n)) = None
                   => get_eq(cache, provider_label, year, n) = None
             /\ get(cache, CacheKey(provider_label, YearKey, "discover", n)) = None
                   => get_discovery(cache, provider_label, year, n) = None)

C15_Witness ==
    /\ \E i \in 1..Len(events) : IsEq(events[i]) /\ events[i].total = 1
    /\ \E i \in 1..Len(events) : IsDisc(events[i]) /\ events[i].harvested = << "cached_hit" >>
    /\ calls = << >>
    /\ \E n \in { candidates[i][1] : i \in 1..Len(candidates) } :
          get(cache, CacheKey(provider_label, YearKey, "eq", n)) = None


\* ------------------------------------------------------------------------
\* C19: in the list build_bucketed_variants returns, every entry of kind
\* "seed" has a smaller index than every entry of kind "expand"
\* ------------------------------------------------------------------------
C19_SeedKindBeforeExpandKind ==
    variants # None =>
        \A i, j \in 1..Len(variants[1]) :
            (variants[1][i].kind = "seed" /\ variants[1][j].kind = "expand") => i < j


\* ------------------------------------------------------------------------
\* C20: no two entries of the list build_bucketed_variants returns have
\* the same name after whitespace squashing, and a name produced by several
\* sources (base name, legal name, aliases, subsidiaries, their upper-case
\* forms, their expansions) appears once, in the bucket of its first
\* occurrence in push order
\* ------------------------------------------------------------------------
UpperName(n) == Str(Join(Split(Upper(Chars(n)), << >>)))

\* a source name is pushed as itself and then in upper case
RECURSIVE Pushes(_, _)
Pushes(names, bucket) ==
    IF names = << >> THEN << >>
    ELSE << [name |-> _squash_ws(Head(names)), bucket |-> bucket],
            [name |-> UpperName(Head(names)), bucket |-> bucket] >>
         \o Pushes(Tail(names), bucket)

\* the expansions of the seeds that pass the filter of expand_many
RECURSIVE Expanded(_, _)
Expanded(seeds, expand) ==
    IF seeds = << >> THEN << >>
    ELSE LET seed == _squash_ws(Head(seeds)) IN
         SelectSeq(expand[seed],
                   LAMBDA v : v # "" /\ _squash_ws(v) # seed /\ _has_designator(v))
         \o Expanded(Tail(seeds), expand)

NonEmpty(names) == SelectSeq(names, LAMBDA n : n # "")

PushOrder(a, expand) ==
    LET seeds ==
            Pushes(NonEmpty(<< a.base_name >>), "orig")
            \o Pushes(NonEmpty(<< a.gleif_legal >>), "gleif_legal")
            \o Pushes(NonEmpty(a.gleif_other_names), "gleif_other")
            \o Pushes(NonEmpty(a.subsidiaries), "gleif_sub")
        exps ==
            Pushes(Expanded(NonEmpty(<< a.gleif_legal >>), expand), "expand_legal")
            \o Pushes(Expanded(NonEmpty(a.gleif_other_names), expand), "expand_other")
            \o Pushes(Expanded(NonEmpty(<< a.base_name >>), expand), "expand_orig")
            \o Pushes(Expanded(a.subsidiaries, expand), "expand_sub")
    IN SelectSeq(IF a.include_expansions THEN seeds \o exps ELSE seeds,
                 LAMBDA p : p.name # "")

FirstPush(po, n) == CHOOSE k \in 1..Len(po) : po[k].name = n /\ \A j \in 1..(k - 1) : po[j].name # n

C20_NoDuplicateNames ==
    variants # None =>
        LET out == variants[1]
            po == PushOrder(planArgs, expansions)
        IN /\ \A i, j \in 1..Len(out) :
                 i # j => _squash_ws(out[i].name) # _squash_ws(out[j].name)
           /\ \A i \in 1..Len(out) :
                 /\ \E k \in 1..Len(po) : po[k].name = out[i].name
                 /\ out[i].bucket = po[FirstPush(po, out[i].name)].bucket
           /\ planArgs.max_variants = 0 =>
                 \A k \in 1..Len(po) : \E i \in 1..Len(out) : out[i].name = po[k].name

C20_Witness ==
    /\ variants # None
    /\ Len(variants[1]) >= 3
    /\ LET po == PushOrder(planArgs, expansions)
       IN \E j, k \in 1..Len(po) :
             /\ j < k
             /\ po[j].name = po[k].name
             /\ po[j].bucket = "orig"
             /\ po[k].bucket = "expand_legal"
             /\ \E i \in 1..Len(variants[1]) :
                   variants[1][i].name = po[j].name /\ variants[1][i].bucket = "orig"


\* ------------------------------------------------------------------------
\* C14: has_hits(k) records that the probe k has returned a result in the
\* past: on a cache that starts empty and is shared by resolve() and
\* plan_names runs of one thread, has_hits(k) becomes true only in a step
\* in which a provider probe for k returned at least one result, and once
\* true it never becomes false
\* ------------------------------------------------------------------------
\* the provider calls of a step, each with the cache key of its probe
StepProbes ==
    IF planRuns' # planRuns
    THEN [i \in 1..Len(planCalls') |->
             [key |-> CacheKey(planArgs'.provider_name, planArgs'.year,
                               IF planCalls'[i].op = "count_eq" THEN "eq" ELSE "discover",
                               planCalls'[i].name),
              hit |-> ~planCalls'[i].raised /\ ProbeHit(planCalls'[i])]]
    ELSE IF run' = run /\ Len(calls') > Len(calls)
    THEN [i \in 1..(Len(calls') - Len(calls)) |->
             LET call == calls'[Len(calls) + i]
             IN [key |-> ProbeKey(call), hit |-> ~call.raised /\ ProbeHit(call)]]
    ELSE << >>

C14_HasHitsMonotone ==
    [][\A k \in DOMAIN Entries(cache) \cup DOMAIN Entries(cache') :
          /\ has_hits(cache, k) => has_hits(cache', k)
          /\ (~has_hits(cache, k) /\ has_hits(cache', k)) =>
                \E i \in 1..Len(StepProbes) :
                    StepProbes[i].key = k /\ StepProbes[i].hit]_vars

\* a key made true by one kind of run and met again by the other kind
C14_Witness ==
    /\ planRuns = 1
    /\ planArgs.run_discovery /\ planArgs.run_eq
    /\ planCalls = << >>
    /\ planResult[1].best_total = 1
    /\ year = Some(2020)
    /\ \E i \in 1..Len(calls) : ~calls[i].raised /\ ProbeHit(calls[i])
    /\ \E k \in DOMAIN Entries(cache) : ~has_hits(cache, k)


\* ------------------------------------------------------------------------
\* C16: for sequential calls on one provider instance with rpm = r, every
\* request starts no earlier than 60/r seconds after the previous request
\* on that instance completed, whatever the duration of that request
\* ------------------------------------------------------------------------
Sequential == \A i \in 1..Len(wire) : wire[i].by = 1

C16_StartsAfterPreviousCompleted ==
    Sequential =>
        \A i \in 2..Len(wire) :
            /\ wire[i - 1].done # None
            /\ wire[i].start >= wire[i - 1].done[1] + _min_interval

\* ------------------------------------------------------------------------
\* C17: when several threads share one provider instance its pacing gate
\* serializes them: in every interleaving any two requests sent through
\* the instance start at least 60/rpm seconds apart
\* ------------------------------------------------------------------------
C17_RequestsSpacedAcrossThreads ==
    \A i, j \in 1..Len(wire) :
        i < j => wire[j].start - wire[i].start >= _min_interval

\* ------------------------------------------------------------------------
\* C18: for every provider a request that fails with a transport error or
\* is answered 429, 500, 502, 503 or 504 is retried with backoff, up to 6
\* retries, and the failure is surfaced only when the retries are
\* exhausted; a 429 is never surfaced on its first occurrence
\* ------------------------------------------------------------------------
C18_RetriedBeforeSurfaced ==
    (outcome = "raised" /\ Retriable(attempts[Len(attempts)])) =>
        /\ Len(attempts) = RetryTotal + 1
        /\ \A i \in 1..Len(attempts) : Retriable(attempts[i])


\* ------------------------------------------------------------------------
\* C21: in the list build_bucketed_variants returns, the seed entries
\* (buckets orig, gleif_legal, gleif_other, gleif_sub) appear in that
\* order of buckets, and the expansion entries appear in the order of the
\* bucket definition: expand_orig, expand_legal, expand_other, expand_sub
\* ------------------------------------------------------------------------
BucketRank(b) == CHOOSE r \in 1..Len(Bucket) : Bucket[r] = b

IsExpandBucket(b) == BucketRank(b) > 4

C21_BucketsInCanonicalOrder ==
    variants # None =>
        \A i, j \in 1..Len(variants[1]) :
            (/\ i < j
             /\ IsExpandBucket(variants[1][i].bucket) = IsExpandBucket(variants[1][j].bucket))
                => BucketRank(variants[1][i].bucket) <= BucketRank(variants[1][j].bucket)


\* ------------------------------------------------------------------------
\* C22: build_cache_aware_variants returns the single entry
\* {name: base_name, bucket: orig, kind: seed} when a cache is given and
\* holds has_hits = true under (provider_name, year or 0, "discover",
\* base_name); in every other case it returns the list of
\* build_bucketed_variants for the same inputs; it never writes to the cache
\* ------------------------------------------------------------------------
AwareKey ==
    CacheKey(planArgs.provider_name, IF planArgs.year = None THEN 0 ELSE planArgs.year[1],
             "discover", planArgs.names.base_name)

AwareHit ==
    /\ planArgs.cache_given
    /\ \E i \in 1..Len(cache.file) :
          /\ cache.file[i].obj.val.has_hits
          /\ \A j \in i..Len(cache.file) :
                << cache.file[j].obj.provider, cache.file[j].obj.year,
                   cache.file[j].obj.op, cache.file[j].obj.key >> = AwareKey
                   => cache.file[j].obj.val.has_hits
          /\ << cache.file[i].obj.provider, cache.file[i].obj.year,
                cache.file[i].obj.op, cache.file[i].obj.key >> = AwareKey

C23_HarvestedPassedGuard ==
    /\ \A e \in 1..Len(events) :
          events[e].type = "disc" =>
             \A h \in 1..Len(events[e].harvested) :
                boundary_guard(events[e].name, events[e].harvested[h])
    /\ \A n \in 1..Len(calls) :
          (calls[n].op = "count_eq" /\ calls[n].stage = "harv") =>
             \E e \in 1..Len(events) :
                /\ events[e].type = "disc"
                /\ boundary_guard(events[e].name, calls[n].name)


\* ------------------------------------------------------------------------
\* C24: in the result of plan_names best_total is the largest count over
\* the exact-count probes of the run, and best_variant / best_bucket are the
\* name and bucket of the first probe, in probe order, with that count;
\* without a nonzero count the result has 0, "" and ""; without probing
\* requested no provider call is made
\* ------------------------------------------------------------------------
EqTrace(r) == SelectSeq(r.trace, LAMBDA t : t.op = "eq")

C24_BestIsFirstMaximum ==
    planResult # None =>
        LET r == planResult[1]
            eqs == EqTrace(r)
            top == IF \E i \in 1..Len(eqs) : eqs[i].n > 0
                   THEN CHOOSE m \in { eqs[i].n : i \in 1..Len(eqs) } :
                           \A i \in 1..Len(eqs) : eqs[i].n <= m
                   ELSE 0
        IN /\ r.best_total = top
           /\ top = 0 => (r.best_variant = "" /\ r.best_bucket = "")
           /\ top > 0 =>
                \E i \in 1..Len(eqs) :
                   /\ eqs[i].n = top
                   /\ \A j \in 1..(i - 1) : eqs[j].n < top
                   /\ r.best_variant = eqs[i].name
                   /\ r.best_bucket = eqs[i].bucket
           /\ (~planArgs.run_discovery /\ ~planArgs.run_eq) =>
                (planCalls = << >> /\ r.trace = << >>)
           /\ ~planArgs.run_eq => eqs = << >>

C24_Witness ==
    /\ planResult # None
    /\ planResult[1].best_total = 772
    /\ \E i, j \in 1..Len(EqTrace(planResult[1])) :
          /\ i < j
          /\ EqTrace(planResult[1])[i].n = 772
          /\ EqTrace(planResult[1])[j].n = 772
          /\ EqTrace(planResult[1])[i].name # EqTrace(planResult[1])[j].name


\* ------------------------------------------------------------------------
\* C25: loading a cache log never fails because of its content: whatever
\* mix of malformed and well-formed lines the file holds, get and has_hits
\* return without an exception, and once loaded the cache holds for every
\* key the val of the last well-formed line of that key
\* ------------------------------------------------------------------------
WellFormed(line) ==
    /\ line.json
    /\ {"provider", "year", "op", "key", "val"} \subseteq DOMAIN line.obj

LastWellFormed(file, k) ==
    LET at == { i \in 1..Len(file) :
                   /\ Decodes(file[i])
                   /\ WellFormed(file[i])
                   /\ << file[i].obj.provider, file[i].obj.year, file[i].obj.op,
                         file[i].obj.key >> = k }
    IN IF at = {} THEN None
       ELSE Some(file[CHOOSE i \in at : \A j \in at : j <= i].obj.val)

C25_LoadNeverFails ==
    /\ error = None
    /\ cache.loaded => \A k \in LoadKeys : get(cache, k) = LastWellFormed(cache.file, k)


\* ------------------------------------------------------------------------
\* C26: mark_has_hits(k, b) changes only the has_hits flag of key k:
\* afterwards has_hits(k) = b, every other field of k's entry keeps its
\* value (an absent entry becomes {has_hits: b}) and the entries of all
\* other keys are unchanged; has_hits(k) is false for a key never put (no
\* line of the log names it and the cache object was opened on that log)
\* ------------------------------------------------------------------------
NeverPut(k) ==
    \A i \in 1..Len(cache.file) :
        << cache.file[i].obj.provider, cache.file[i].obj.year, cache.file[i].obj.op,
           cache.file[i].obj.key >> # k

MarkFrame(k, b) ==
    LET old == get(cache, k)
        new == get(cache', k)
    IN /\ new # None
       /\ new[1].has_hits = b
       /\ has_hits(cache', k) = b
       /\ DOMAIN new[1] = (IF old = None THEN {} ELSE DOMAIN old[1]) \cup {"has_hits"}
       /\ \A f \in DOMAIN new[1] \ {"has_hits"} : new[1][f] = old[1][f]
       /\ \A k2 \in CacheKeys \ {k} : get(cache', k2) = get(cache, k2)

C26_MarkChangesOnlyTheFlag ==
    /\ [](fresh # None => \A k \in CacheKeys : NeverPut(k) => ~has_hits(fresh[1], k))
    /\ [][\A k \in CacheKeys, b \in BOOLEAN :
             (cache' = mark_has_hits(cache, k, b)) => MarkFrame(k, b)]_vars

C26_Witness ==
    /\ fresh # None
    /\ \E k \in CacheKeys : NeverPut(k)
    /\ \E k \in CacheKeys :
        /\ get(cache, k) = Some([has_hits |-> FALSE, note |-> "n"])
        /\ \E k2 \in CacheKeys \ {k} : get(cache, k2) = Some([has_hits |-> TRUE])

\* ------------------------------------------------------------------------
\* C27: the cache log is append-only: every successful put or
\* mark_has_hits appends exactly one line, also when the key exists or the
\* value is unchanged, and leaves the lines written before as they were;
\* get and has_hits never write to the file
\* ------------------------------------------------------------------------
C27_LogIsAppendOnly ==
    /\ [][IsPrefix(cache.file, cache'.file)]_vars
    /\ [][(DirectPut \/ DirectMark) => Len(cache'.file) = Len(cache.file) + 1]_vars
    /\ [][(DirectGet \/ DirectHasHits) => cache'.file = cache.file]_vars

C27_Witness ==
    /\ Len(cache.file) >= 2
    /\ cache.file[Len(cache.file)] = cache.file[Len(cache.file) - 1]
    /\ ops = Len(cache.file)


\* ------------------------------------------------------------------------
\* C29: EpoProvider counting never fails on the shapes listed as zero:
\* whenever the search response has status 404, or its body is an XML
\* <fault> document, or its shape is unrecognized, the count operation
\* returns total 0 and does not raise
\* ------------------------------------------------------------------------
C29_ZeroShapesNeverRaise ==
    (/\ counted # None
     /\ \/ counted[1].status = 404
        \/ counted[1].body \in { "fault", "unknown" })
       => (~counted[1].raised /\ counted[1].total = 0)


\* ------------------------------------------------------------------------
\* C28: on one EpoProvider the access token is reused until it is within 60
\* seconds of expiry and its refresh is single-flight: no token request is
\* sent while a token with more than 60 seconds left is held, a search uses
\* the token held when it asked, and two token requests are never
\* outstanding at the same time
\* ------------------------------------------------------------------------
Outstanding == { i \in 1..Len(wire) : wire[i].done = None }

C28_TokenRefreshSingleFlight ==
    /\ Cardinality(Outstanding) <= 1
    /\ \A t \in Callers :
          (callers[t].pc = "get" /\ Outstanding = {}) => callers[t].token = auth.token


\* ------------------------------------------------------------------------
\* C30: pick_top_matches returns as top_records exactly the matched records
\* without depositary-receipt markers whose rule has the highest priority
\* among them; status is ok iff there is exactly one such record and
\* ambiguous_multi iff there are several; a record with the markers is never
\* returned while a record without them matched; top_rule is the rule of the
\* first returned record, and every returned record has a rule of that
\* priority.  A record counts as matched when rule_for gives it a rule and
\* it carries an identifier.
\* ------------------------------------------------------------------------
RuleOfRow(i) == rule_for(gleifTarget, gleifRows[i].legalName, gleifRows[i].otherNames)

PlainMatched == { i \in 1..Len(gleifRows) :
                     RuleOfRow(i) # "" /\ gleifRows[i].id # "" /\ ~adr_like(gleifRows[i]) }

TopRows == { i \in PlainMatched :
                \A j \in PlainMatched : PriorityOf(RuleOfRow(j)) <= PriorityOf(RuleOfRow(i)) }

RECURSIVE Ascending(_)
Ascending(S) ==
    IF S = {} THEN << >>
    ELSE With(CHOOSE i \in S : \A j \in S : i <= j,
              LAMBDA lo : << lo >> \o Ascending(S \ { lo }))

ReturnsTopRows ==
    /\ Len(picked[1].matches) = Cardinality(TopRows)
    /\ \A n \in 1..Len(picked[1].matches) :
          /\ picked[1].matches[n].lei = gleifRows[Ascending(TopRows)[n]].id
          /\ picked[1].matches[n].legal = gleifRows[Ascending(TopRows)[n]].legalName
          /\ picked[1].matches[n].rule = RuleOfRow(Ascending(TopRows)[n])
    /\ picked[1].status = "ok" <=> Cardinality(TopRows) = 1
    /\ picked[1].status = "ambiguous_multi" <=> Cardinality(TopRows) > 1

C30_TopMatches ==
    picked # None =>
       /\ ReturnsTopRows
       /\ picked[1].matches # << >> =>
             /\ picked[1].top_rule = picked[1].matches[1].rule
             /\ \A n \in 1..Len(picked[1].matches) :
                   PriorityOf(picked[1].matches[n].rule) = PriorityOf(picked[1].top_rule)

\* two records without the markers matched with the same priority under
\* different rules, and both were returned
C30_Witness ==
    /\ picked # None
    /\ picked[1].status = "ambiguous_multi"
    /\ \E n \in 1..Len(picked[1].matches) : picked[1].matches[n].rule # picked[1].top_rule

\* C30 as stated: top_rule is the rule of the returned records, all of them
C30_TopRuleOfAllReturned ==
    picked # None =>
       /\ ReturnsTopRows
       /\ \A n \in 1..Len(picked[1].matches) :
             picked[1].matches[n].rule = picked[1].top_rule


\* ------------------------------------------------------------------------
\* C31: pick_top_matches returns status adr_only_candidates exactly when no
\* record without depositary-receipt markers matched, there is at least one
\* record, and all records carry the markers; when some records carry them
\* and the others are plain records that do not match, the status is
\* no_match or non_latin_only
\* ------------------------------------------------------------------------
AllRowsAdr == gleifRows # << >> /\ \A i \in 1..Len(gleifRows) : adr_like(gleifRows[i])

C31_AdrOnlyIffAllCandidatesAdr ==
    picked # None =>
       /\ picked[1].status = "adr_only_candidates" <=> (PlainMatched = {} /\ AllRowsAdr)
       /\ (PlainMatched = {} /\ ~AllRowsAdr) =>
              picked[1].status \in { "no_match", "non_latin_only" }


\* ------------------------------------------------------------------------
\* C32: no query of gleif_search_union combines the full-text filter with
\* another filter: the parameters of each query are filter[fulltext] and
\* page[size] alone, or filter[entity.legalName] and page[size] with an
\* optional filter[entity.legalAddress.country]
\* ------------------------------------------------------------------------
FulltextAlone(q) == DOMAIN q = { "filter[fulltext]", "page[size]" }

LegalNameOnly(q) ==
    \/ DOMAIN q = { "filter[entity.legalName]", "page[size]" }
    \/ DOMAIN q = { "filter[entity.legalName]", "filter[entity.legalAddress.country]",
                    "page[size]" }

C32_FulltextNeverCombined ==
    gleif # None =>
       \A i \in 1..Len(gleif[1].queries) :
          FulltextAlone(gleif[1].queries[i]) \/ LegalNameOnly(gleif[1].queries[i])

\* a call with country hints has sent all its queries, full-text ones included
C32_Witness ==
    /\ gleif # None
    /\ gleif[1].outcome = "returned"
    /\ gleif[1].country_hints # << >>
    /\ \E i \in 1..Len(gleif[1].queries) : FulltextAlone(gleif[1].queries[i])
    /\ \E i \in 1..Len(gleif[1].queries) :
          "filter[entity.legalAddress.country]" \in DOMAIN gleif[1].queries[i]

\* ------------------------------------------------------------------------
\* C33: gleif_search_union returns each record identifier at most once,
\* keeping the record of its first occurrence in query order, and a query
\* that fails (HTTP error, body that is not JSON, exception of the
\* transport) is skipped: it does not raise and the records collected so
\* far stay
\* ------------------------------------------------------------------------
OutIdentifiersDistinct ==
    gleif # None =>
       \A i, j \in 1..Len(gleif[1].out) :
          /\ LeiOf(gleif[1].out[i]) # ""
          /\ i # j => LeiOf(gleif[1].out[i]) # LeiOf(gleif[1].out[j])

FailedAnswer(a) == a.kind \in { "http_error", "not_json", "exception" }

\* the step from g to h that received answer a
UnionStep(g, h, a) ==
    IF FailedAnswer(a)
    THEN h.out = g.out /\ h.outcome = "running" /\ h.pos = g.pos + 1
    ELSE /\ IsPrefix(g.out, h.out)
         /\ \A n \in 1..Len(a.data) :
               LeiOf(a.data[n]) # "" =>
                  \E k \in 1..Len(h.out) :
                     /\ LeiOf(h.out[k]) = LeiOf(a.data[n])
                     /\ k > Len(g.out) =>
                           h.out[k] = a.data[CHOOSE m \in 1..Len(a.data) :
                                                 /\ LeiOf(a.data[m]) = LeiOf(a.data[n])
                                                 /\ \A l \in 1..(m - 1) :
                                                       LeiOf(a.data[l]) # LeiOf(a.data[n])]
         /\ \A k \in (Len(g.out) + 1)..Len(h.out) :
               \E n \in 1..Len(a.data) : h.out[k] = a.data[n]

C33_UnionKeepsFirstOccurrence ==
    /\ []OutIdentifiersDistinct
    /\ [][(gleif # None /\ gleif' # gleif /\ gleif'[1].last # None
             /\ gleif[1].outcome = "running" /\ gleif'[1].last[1].kind # "json_array"
             /\ (gleif'[1].pos = gleif[1].pos + 1))
          => UnionStep(gleif[1], gleif'[1], gleif'[1].last[1])]_vars

\* a record was kept and the last answer held another record of the same
\* identifier: the call returned the first one alone
C33_Witness ==
    /\ gleif # None
    /\ gleif[1].outcome = "returned"
    /\ gleif[1].out = << GleifRecord("A", "", 1) >>
    /\ gleif[1].last # None
    /\ gleif[1].last[1].kind = "json"
    /\ \E n \in 1..Len(gleif[1].last[1].data) :
          gleif[1].last[1].data[n] = GleifRecord("", "A", 3)


\* ------------------------------------------------------------------------
\* C34: norm is idempotent: norm(norm(s)) = norm(s) for every string s,
\* also for strings that end in several dots, in several slash-tags or in a
\* slash-tag followed by punctuation that norm drops
\* ------------------------------------------------------------------------
C34_NormIdempotent ==
    (normed # None /\ normed.twice # None) => normed.twice = normed.once


\* ------------------------------------------------------------------------
\* C35: resolve and plan_names send exact-count requests only for plan
\* candidates and for names a provider discovery call returned: the cache
\* placeholder "cached_hit" is never passed to the provider and never
\* written to the cache as an eq key
\* ------------------------------------------------------------------------
PlaceholderCounted(cs) ==
    \E i \in 1..Len(cs) : cs[i].op # "discover_prefix" /\ cs[i].name = "cached_hit"

PlaceholderInLog ==
    \E i \in 1..Len(cache.file) :
       /\ cache.file[i].json
       /\ cache.file[i].obj.op = "eq"
       /\ cache.file[i].obj.key = "cached_hit"

C35_PlaceholderNeverProbed ==
    /\ ~PlaceholderCounted(calls)
    /\ ~PlaceholderCounted(planCalls)
    /\ ~PlaceholderInLog


\* ------------------------------------------------------------------------
\* C36: within one resolve run against a provider whose answers do not
\* change, all EqAttemptResult events that carry the same variant name
\* report the same total
\* ------------------------------------------------------------------------
\* count_eq gave one total per name and never raised, in this run
StableAnswers ==
    \A i, j \in 1..Len(calls) :
       (calls[i].op = "count_eq" /\ calls[j].op = "count_eq") =>
          /\ ~calls[i].raised
          /\ calls[i].name = calls[j].name => calls[i].total = calls[j].total

C36_SameNameSameTotal ==
    StableAnswers =>
       \A i, j \in 1..Len(events) :
          (events[i].type = "eq" /\ events[j].type = "eq" /\ events[i].name = events[j].name)
             => events[i].total = events[j].total


\* ------------------------------------------------------------------------
\* C37: the NamePlanResult of plan_names is consistent: whenever
\* best_variant is non-empty, eq_counts[best_variant] = best_total, and
\* best_total is the maximum value in eq_counts
\* ------------------------------------------------------------------------
C37_BestAgreesWithEqCounts ==
    (planResult # None /\ planResult[1].best_variant # "") =>
       /\ planResult[1].best_variant \in DOMAIN planResult[1].eq_counts
       /\ planResult[1].eq_counts[planResult[1].best_variant] = planResult[1].best_total
       /\ \A n \in DOMAIN planResult[1].eq_counts :
             planResult[1].eq_counts[n] <= planResult[1].best_total


\* ------------------------------------------------------------------------
\* C38: plan_names writes has_hits=false for a key only after the provider
\* answered that probe with zero results: a discovery or exact-count probe
\* that failed with an exception leaves the cache without an entry for its
\* key
\* ------------------------------------------------------------------------
PlanProbeKey(a, c) ==
    CacheKey(a.provider_name, a.year,
             IF c.op = "discover_prefix" THEN "discover" ELSE "eq", c.name)

C38_FailedProbeLeavesNoEntry ==
    [][planRuns' # planRuns =>
          \A i \in 1..Len(planCalls') :
             planCalls'[i].raised => get(cache', PlanProbeKey(planArgs', planCalls'[i])) = None]_vars


\* ------------------------------------------------------------------------
\* C39: set_rpm preserves the pacing guarantee: on a provider that has
\* already sent a request, the next request starts at least 60/n seconds
\* (the interval in force) after the start of the previous request, also
\* when set_rpm(n) was called in between
\* ------------------------------------------------------------------------
C39_SetRpmKeepsPacing ==
    [][(Len(wire') = Len(wire) + 1 /\ Len(wire) >= 1) =>
          wire'[Len(wire')].start - wire[Len(wire)].start >= _min_interval]_vars


\* the codes of a level as the provider has them, normalised and sorted
LevelCodes(level) ==
    IF level = "section" THEN Normalized(SECTIONS)
    ELSE IF level = "class" THEN Normalized(PvClasses)
    ELSE IF level = "subclass" THEN Normalized(PvSubclasses)
    ELSE Normalized(GroupSweep(Normalized(PvSubclasses), << >>))

\* C40: whatever calls came before, a get_codebook(level, roots=R) that
\* returns gives exactly the codes of the level that start with a root in R
\* (all codes of the level when no roots are given).
C40_CodebookIndependentOfEarlierRoots ==
    (book.last # None /\ ~book.last[1].raised)
        => book.last[1].codes = FilterByRoots(LevelCodes(book.last[1].level), book.last[1].roots)

=============================================================================
